---- MODULE Spec2Model ----
(***************************************************************************)
(* Model of the Task3 conversational agent graph (query_rewriter ->        *)
(* doc_retriever -> doc_grader -> answer_generation | fallback_agent),     *)
(* its per-thread checkpointed AgentState and the memory window            *)
(* update_recent_chats.                                                    *)
(*                                                                         *)
(* Python values are represented as follows.                               *)
(*   str   : a sequence of one-character strings, <<"a", " ">>             *)
(*   None  : PyNone                                                        *)
(*   dict  : [kind |-> "dict", items |-> <<[k |-> key, v |-> value], ..>>] *)
(*           with the items in insertion order                             *)
(*   list  : [kind |-> "list", items |-> <<..>>]                           *)
(***************************************************************************)
EXTENDS Integers, Sequences, FiniteSets, TLC

\* ------------------------------------------------------------------------
\* Bounds of the model
\* ------------------------------------------------------------------------

\* most POST /generate requests accepted in one behaviour
MaxTurns == 2

\* most entries of a recent_chats argument handed to update_recent_chats
MaxRecentLen == 3

\* largest max_chats argument handed to update_recent_chats
MaxMaxChats == 4

\* ------------------------------------------------------------------------
\* Program constants
\* ------------------------------------------------------------------------

\* default of the max_chats parameter of update_recent_chats
MAX_CHATS == 3

\* default of the top_k parameter of FAISSRetriever.retrieve
TOP_K == 1


\* ------------------------------------------------------------------------
\* Python values
\* ------------------------------------------------------------------------

PyNone == <<"None">>

EmptyDict == [kind |-> "dict", items |-> <<>>]

EmptyList == [kind |-> "list", items |-> <<>>]

\* isinstance(x, Dict)
IsDict(x) == x.kind = "dict"

\* list(d.values())
DictValues(d) == [i \in 1..Len(d.items) |-> d.items[i].v]

\* list(d.keys())
DictKeys(d) == [i \in 1..Len(d.items) |-> d.items[i].k]

\* d[key] for a key that is present
DictGet(d, key) == d.items[CHOOSE i \in 1..Len(d.items) : d.items[i].k = key].v

\* str.strip(): drop the leading and the trailing blanks
RECURSIVE LStrip(_)
LStrip(s) == IF s # <<>> /\ Head(s) = " " THEN LStrip(Tail(s)) ELSE s

RECURSIVE RStrip(_)
RStrip(s) ==
    IF s # <<>> /\ s[Len(s)] = " " THEN RStrip(SubSeq(s, 1, Len(s) - 1)) ELSE s

Strip(s) == RStrip(LStrip(s))

LowerChar(c) ==
    CASE c = "Y" -> "y"
      [] c = "E" -> "e"
      [] c = "S" -> "s"
      [] c = "N" -> "n"
      [] c = "O" -> "o"
      [] OTHER -> c

\* str.lower()
Lower(s) == [i \in 1..Len(s) |-> LowerChar(s[i])]

\* seq[-n:] of Python: the start index -n counts from the end when it is
\* negative (clamped at 0) and from the front when it is not (clamped at len)
SliceFromNeg(seq, n) ==
    LET len == Len(seq)
        start == IF 0 - n < 0
                 THEN (IF len - n > 0 THEN len - n ELSE 0)
                 ELSE (IF 0 - n < len THEN 0 - n ELSE len)
    IN SubSeq(seq, start + 1, len)

\* ------------------------------------------------------------------------
\* Memory window (Task3/utils/__init__.py)
\* ------------------------------------------------------------------------

\* a plausible slip: the keys of enumerate() used as they are (0-based)
ReindexZeroBased(chats) ==
    [kind |-> "dict",
     items |-> [i \in 1..Len(chats) |-> [k |-> i - 1, v |-> chats[i]]]]

\* {i + 1: chat for i, chat in enumerate(chats)}
Reindex(chats) ==
    [kind |-> "dict", items |-> [i \in 1..Len(chats) |-> [k |-> i, v |-> chats[i]]]]

\* a plausible slip: the window keeps the first max_chats entries
KeepFirst(chats, max_chats) ==
    SubSeq(chats, 1, IF max_chats < Len(chats) THEN max_chats ELSE Len(chats))

\* chats[-max_chats:]
KeepLast(chats, max_chats) == SliceFromNeg(chats, max_chats)

update_recent_chats(recent_chats, latest_question, answer, max_chats) ==
    LET rc == IF ~IsDict(recent_chats) THEN EmptyDict ELSE recent_chats
        appended == Append(DictValues(rc),
                           [question |-> Strip(latest_question),
                            answer |-> Strip(answer)])
    IN Reindex(KeepLast(appended, max_chats))

\* ------------------------------------------------------------------------
\* Sets the inputs are drawn from
\* ------------------------------------------------------------------------

\* conversations (the unique_id of a request)
Threads == {"t1", "t2"}

\* request handlers that can be in flight at once
Slots == {"r1", "r2"}

\* documents of the vector index
IndexDocs == {"d1"}

\* the letter the questions of a conversation are written in
Letter(uid) == IF uid = "t1" THEN "a" ELSE "b"

\* the queries a client of conversation uid submits
Queries(uid) == {<<" ", Letter(uid)>>}

\* what the rewriter LLM (temperature 0) returns for a query: a rewording
\* that differs from the query, and the flag for the queries written in "a"
Rewrite(q) == Strip(q) \o <<"?", " ">>

ToolQuery(q) == Strip(q) = <<"a">>

\* what the answer LLM may return
Answers == {<<" ", "x">>, <<"y">>}

\* what the grader LLM may return as score
Scores == {<<" ", "Y", "e", "s">>, <<"N", "o">>}

\* the scores that say yes
YesScores == {<<" ", "Y", "e", "s">>}

RECURSIVE SeqsUpTo(_, _)
\* the sequences over S of length at most n
SeqsUpTo(S, n) ==
    IF n = 0 THEN {<<>>}
    ELSE LET shorter == SeqsUpTo(S, n - 1)
         IN shorter \cup {Append(q, x) : q \in shorter, x \in S}

SeqsOfLen(S, n) == {q \in SeqsUpTo(S, n) : Len(q) = n}

NoDup(q) == \A i, j \in 1..Len(q) : i # j => q[i] # q[j]

\* ------------------------------------------------------------------------
\* AgentState (Task3/agent_state.py): a dict; keys holds the keys present
\* ------------------------------------------------------------------------

NoState ==
    [keys |-> {},
     user_query |-> PyNone,
     rephrased_question |-> PyNone,
     conversation |-> EmptyDict,
     tool_flag |-> FALSE,
     documents |-> <<>>,
     proceed_to_generate |-> FALSE,
     generated_answer |-> PyNone]

\* state[key] = val
SetKey(state, key, val) == [state EXCEPT ![key] = val, !.keys = @ \cup {key}]

\* state.get(key, default)
GetKey(state, key, default) == IF key \in state.keys THEN state[key] ELSE default

\* ------------------------------------------------------------------------
\* Nodes of the graph
\* ------------------------------------------------------------------------

\* a plausible slip: the except branch leaves the fields as initialised
RewriterDegradeNothing(state) == state

\* the except branch of query_rewriter: same query, RAG mode
RewriterDegrade(state) ==
    SetKey(SetKey(state, "rephrased_question", GetKey(state, "user_query", <<>>)),
           "tool_flag", FALSE)

\* a plausible slip: the conversation is initialised on every turn
query_rewriter_resetting(state, response) ==
    LET s1 == SetKey(state, "rephrased_question", PyNone)
        s2 == SetKey(s1, "conversation", EmptyDict)
        s3 == SetKey(s2, "tool_flag", FALSE)
        s4 == SetKey(s3, "generated_answer", PyNone)
    IN IF response.ok
       THEN SetKey(SetKey(s4, "rephrased_question", response.rephrased_question),
                   "tool_flag", response.tool_flag)
       ELSE RewriterDegrade(s4)

\* a plausible slip: the conversation is initialised whether present or not
RewriterInitResetting(state) ==
    LET s1 == SetKey(state, "rephrased_question", PyNone)
        s2 == SetKey(s1, "conversation", EmptyDict)
        s3 == SetKey(s2, "tool_flag", FALSE)
    IN SetKey(s3, "generated_answer", PyNone)

\* query_rewriter up to the prompt: the state the LLM call is made from
RewriterInit(state) ==
    LET s1 == SetKey(state, "rephrased_question", PyNone)
        s2 == IF "conversation" \notin s1.keys
              THEN SetKey(s1, "conversation", EmptyDict)
              ELSE s1
        s3 == SetKey(s2, "tool_flag", FALSE)
    IN SetKey(s3, "generated_answer", PyNone)

\* query_rewriter; response is what model.ainvoke returned, or its failure
query_rewriter(state, response) ==
    LET s4 == RewriterInit(state)
    IN IF response.ok
       THEN SetKey(SetKey(s4, "rephrased_question", response.rephrased_question),
                   "tool_flag", response.tool_flag)
       ELSE RewriterDegrade(s4)

\* doc_retriever: writes what retrieve(rephrased_question, k) returned
doc_retriever(state, results) == SetKey(state, "documents", results)

\* a plausible slip: the score is compared as the LLM wrote it
IsYesExact(score) == score = <<"y", "e", "s">>

\* response.score.strip().lower() == "yes"
IsYes(score) == Lower(Strip(score)) = <<"y", "e", "s">>

RECURSIVE Retained(_, _)
\* the documents whose score is yes, in their order
Retained(documents, scores) ==
    IF documents = <<>> THEN <<>>
    ELSE (IF IsYes(Head(scores)) THEN <<Head(documents)>> ELSE <<>>)
         \o Retained(Tail(documents), Tail(scores))

\* a plausible slip: the grader keeps nothing for a query flagged for a tool
doc_grader_tool_gated(state, scores) ==
    LET relavant_docs == IF GetKey(state, "tool_flag", FALSE) THEN <<>>
                         ELSE Retained(GetKey(state, "documents", PyNone), scores)
    IN SetKey(SetKey(state, "documents", relavant_docs),
              "proceed_to_generate", Len(relavant_docs) > 0)

\* a plausible slip: proceed_to_generate is only ever set, never cleared
doc_grader_setting_only(state, scores) ==
    LET relavant_docs == Retained(GetKey(state, "documents", PyNone), scores)
        s1 == SetKey(state, "documents", relavant_docs)
    IN IF Len(relavant_docs) > 0 THEN SetKey(s1, "proceed_to_generate", TRUE) ELSE s1

\* doc_grader; scores are the LLM's answers, one per document
doc_grader(state, scores) ==
    LET relavant_docs == Retained(GetKey(state, "documents", PyNone), scores)
    IN SetKey(SetKey(state, "documents", relavant_docs),
              "proceed_to_generate", Len(relavant_docs) > 0)

\* the LLM calls of doc_grader: one ainvoke in each turn of its loop over
\* state.get("documents")
grader_calls(state) == Len(GetKey(state, "documents", PyNone))

\* the value answer_generation hands to update_recent_chats as recent_chats
GenerationRecentChats(state) == GetKey(state, "messages", EmptyList)

\* answer_generation; answer is response.answer
answer_generation(state, answer) ==
    LET s1 == SetKey(state, "generated_answer", answer)
    IN SetKey(s1, "conversation",
              update_recent_chats(GenerationRecentChats(s1),
                                  GetKey(s1, "rephrased_question", PyNone),
                                  answer, MAX_CHATS))

FallbackMessage ==
    <<"I'm sorry, I couldn't find any relevant information to answer your question. Can you please provide more details.">>

\* a plausible slip: the fallback turn is remembered like a grounded one
fallback_agent_remembering(state) ==
    LET s1 == SetKey(state, "generated_answer", FallbackMessage)
    IN SetKey(s1, "conversation",
              update_recent_chats(GetKey(s1, "conversation", EmptyList),
                                  GetKey(s1, "rephrased_question", PyNone),
                                  FallbackMessage, MAX_CHATS))

\* a plausible slip: the node returns the state without the apology
fallback_agent_silent(state) == state

fallback_agent(state) == SetKey(state, "generated_answer", FallbackMessage)

\* the router of the conditional edge after doc_grader
no_relevant_docs(state) ==
    IF GetKey(state, "proceed_to_generate", FALSE)
       /\ GetKey(state, "documents", <<>>) # <<>>
    THEN "generate_answer"
    ELSE "fallback"

\* a plausible slip: the two targets of the conditional edge swapped
ConditionalTargetSwapped(route) ==
    IF route = "generate_answer" THEN "fallback_agent" ELSE "answer_generation"

\* the mapping of the conditional edge
ConditionalTarget(route) ==
    IF route = "generate_answer" THEN "answer_generation" ELSE "fallback_agent"

\* a plausible slip: an edge from query_rewriter straight to doc_grader
EdgeTargetSkipping(node) ==
    CASE node = "START" -> "query_rewriter"
      [] node = "query_rewriter" -> "doc_grader"
      [] node = "doc_retriever" -> "doc_grader"
      [] node = "answer_generation" -> "END"
      [] node = "fallback_agent" -> "END"

\* the unconditional edges
EdgeTarget(node) ==
    CASE node = "START" -> "query_rewriter"
      [] node = "query_rewriter" -> "doc_retriever"
      [] node = "doc_retriever" -> "doc_grader"
      [] node = "answer_generation" -> "END"
      [] node = "fallback_agent" -> "END"

\* ------------------------------------------------------------------------
\* Ingestion pipeline (Task1, Task2): strings, paths and files
\*   a JSON object    : a function from its keys to its values (the order
\*                      of the keys, on which no stage depends, is left out)
\*   a JSON file      : [exists |-> BOOLEAN, data |-> the object it holds]
\*   a directory      : [exists |-> BOOLEAN, files |-> name -> content]
\*   an Optional dict : NoneObj or Loaded(object)
\*   a list of names  : the set of its names (os.listdir and set() give the
\*                      names in no particular order)
\* ------------------------------------------------------------------------

EmptyMap == [k \in {} |-> <<>>]

\* existing_data.update(new) and {**existing_data, **new}
Merged(d, new) ==
    [k \in (DOMAIN d) \cup (DOMAIN new) |-> IF k \in DOMAIN new THEN new[k] ELSE d[k]]

\* {key: d[key] for key in keys}
Restrict(d, keys) == [k \in keys |-> d[k]]

\* a path at which nothing exists
NoFile == [exists |-> FALSE, data |-> EmptyMap]

NoDir == [exists |-> FALSE, files |-> EmptyMap]

\* os.makedirs(path, exist_ok = True)
makedirs(dir) == IF dir.exists THEN dir ELSE [exists |-> TRUE, files |-> EmptyMap]

\* os.listdir(dir) of a directory that exists
listdir(dir) == DOMAIN dir.files

\* None where a dict or a list may stand
NoneObj == [kind |-> "None"]

\* what json.load returned
Loaded(object) == [kind |-> "json", data |-> object]

\* `not d` of an Optional dict
Falsy(d) == d.kind = "None" \/ DOMAIN d.data = {}

\* open_file: the FileNotFoundError it raises for a missing file is caught
\* by its own except branch, which only constructs a ValueError: None comes
\* back
open_file(file) == IF file.exists THEN Loaded(file.data) ELSE NoneObj

\* str.endswith(suffix)
EndsWith(s, suffix) ==
    /\ Len(s) >= Len(suffix)
    /\ SubSeq(s, Len(s) - Len(suffix) + 1, Len(s)) = suffix

\* str.replace(old, new) for a non-empty old: every occurrence, left to right
RECURSIVE Replace(_, _, _)
Replace(s, old, new) ==
    IF Len(s) < Len(old) THEN s
    ELSE IF SubSeq(s, 1, Len(old)) = old
         THEN new \o Replace(SubSeq(s, Len(old) + 1, Len(s)), old, new)
         ELSE <<Head(s)>> \o Replace(Tail(s), old, new)

\* sep.join(parts)
RECURSIVE Join(_, _)
Join(sep, parts) ==
    IF Len(parts) = 0 THEN <<>>
    ELSE IF Len(parts) = 1 THEN parts[1]
    ELSE parts[1] \o sep \o Join(sep, Tail(parts))

\* index of the last "." of name, 0 when it has none
LastDot(name) ==
    LET dots == {i \in 1..Len(name) : name[i] = "."}
    IN IF dots = {} THEN 0 ELSE CHOOSE i \in dots : \A j \in dots : j <= i

\* Path(name).stem: the name up to its last suffix; a dot that leads or ends
\* the name starts no suffix
Stem(name) ==
    LET i == LastDot(name)
    IN IF i > 1 /\ i < Len(name) THEN SubSeq(name, 1, i - 1) ELSE name

PNG == <<".", "p", "n", "g">>

JPG == <<".", "j", "p", "g">>

JPEG == <<".", "j", "p", "e", "g">>

CSV == <<".", "c", "s", "v">>

JSON == <<".", "j", "s", "o", "n">>

\* "_summary.csv"
SUMMARY_CSV == <<"_", "s", "u", "m", "m", "a", "r", "y">> \o CSV

\* "_structured.json"
STRUCTURED_JSON == <<"_", "s", "t", "r", "u", "c", "t", "u", "r", "e", "d">> \o JSON

A_PNG == <<"a">> \o PNG

B_PNG == <<"b">> \o PNG

C_JPG == <<"c">> \o JPG

\* a file of the raw image folder that is no image
N_TXT == <<"n", ".", "t", "x", "t">>

\* the files that are dropped into data/raw_images
RawFiles == {A_PNG, B_PNG, C_JPG, N_TXT}

\* ------------------------------------------------------------------------
\* OCR stage (Task1/utils.py)
\* ------------------------------------------------------------------------

\* f.lower().endswith((".png", ".jpg", ".jpeg"))
IsImageName(f) == \E suffix \in {PNG, JPG, JPEG} : EndsWith(Lower(f), suffix)

\* a plausible slip: the processed file is not consulted
check_existing_extractions_all(image_folder, processed_file) ==
    LET all_images == {f \in listdir(image_folder) : IsImageName(f)}
    IN [to_process |-> all_images, already_processed |-> {}]

\* check_existing_extractions for an image folder that exists (os.listdir
\* raises FileNotFoundError for one that does not)
check_existing_extractions(image_folder, processed_file) ==
    LET all_images == {f \in listdir(image_folder) : IsImageName(f)}
        processed_files == IF processed_file.exists
                           THEN DOMAIN processed_file.data ELSE {}
    IN [to_process |-> {img \in all_images : img \notin processed_files},
        already_processed |-> {img \in all_images : img \in processed_files}]

\* what client.detect_document_text may return: a page block, the lines
\* " x" and "y " and a word block
TextractResponses ==
    {[Blocks |-> <<[BlockType |-> "PAGE"],
                   [BlockType |-> "LINE", Text |-> <<" ", "x">>],
                   [BlockType |-> "LINE", Text |-> <<"y", " ">>],
                   [BlockType |-> "WORD", Text |-> <<"z">>]>>]}

\* a collaborator call: it raised, or it returned response
Failure == [ok |-> FALSE, response |-> NoneObj]

Success(response) == [ok |-> TRUE, response |-> response]

TextractOutcomes == {Failure} \cup {Success(r) : r \in TextractResponses}

\* open(image_path, "rb") raised: the bytes of the image cannot be read
Unreadable == [ok |-> FALSE, response |-> [kind |-> "unreadable"]]

\* what handling one image of to_process may come to
ImageOutcomes == TextractOutcomes \cup {Unreadable}

\* extract_image_data raises: open is outside the try of the loop, so the
\* exception of an image that cannot be read leaves the function
ExtractImageDataRaises(to_process, outcome) ==
    \E img_name \in to_process : outcome[img_name] = Unreadable

\* extract_image_data: the responses of the images whose call did not raise
extract_image_data(to_process, outcome) ==
    IF to_process = {} THEN EmptyMap
    ELSE [img_name \in {i \in to_process : outcome[i].ok} |->
              outcome[img_name].response]

\* the Text of the blocks of BlockType LINE, in the order of the blocks
RECURSIVE Lines(_)
Lines(blocks) ==
    IF Len(blocks) = 0 THEN <<>>
    ELSE LET block == Head(blocks)
         IN (IF "BlockType" \in DOMAIN block /\ block.BlockType = "LINE"
             THEN <<IF "Text" \in DOMAIN block THEN block.Text ELSE <<>> >>
             ELSE <<>>) \o Lines(Tail(blocks))

\* texts of get_relevant_data: " ".join(lines).strip() per file
Texts(data) ==
    [filename \in DOMAIN data |->
        Strip(Join(<<" ">>,
                   Lines(IF "Blocks" \in DOMAIN data[filename]
                         THEN data[filename].Blocks ELSE <<>>)))]

\* get_relevant_data(data, save_data = True): processed_text.json afterwards
get_relevant_data(data, save_path) ==
    LET existing_data == IF save_path.exists THEN save_path.data ELSE EmptyMap
    IN [exists |-> TRUE, data |-> Merged(existing_data, Texts(data))]

\* ------------------------------------------------------------------------
\* Entity stage (Task1/components/comprehend.py)
\* ------------------------------------------------------------------------

\* a plausible slip: the entity file is not consulted
check_existing_comprehend_all(textract_file, comprehend_file) ==
    IF ~textract_file.exists
    THEN [to_analyze |-> {}, already_analyzed |-> {}]
    ELSE [to_analyze |-> DOMAIN textract_file.data,
          already_analyzed |-> {},
          texts_to_analyze |-> textract_file.data]

check_existing_comprehend(textract_file, comprehend_file) ==
    IF ~textract_file.exists
    THEN [to_analyze |-> {}, already_analyzed |-> {}]
    ELSE LET textract_data == textract_file.data
             textract_keys == DOMAIN textract_data
             comprehend_keys == IF comprehend_file.exists
                                THEN DOMAIN comprehend_file.data ELSE {}
             to_analyze == {key \in textract_keys : key \notin comprehend_keys}
         IN [to_analyze |-> to_analyze,
             already_analyzed |-> {key \in textract_keys : key \in comprehend_keys},
             texts_to_analyze |-> Restrict(textract_data, to_analyze)]

\* entities as Comprehend Medical returns them
Entity ==
    [Text |-> <<"m">>, Category |-> <<"C">>, Type |-> <<"T">>, Score |-> 1,
     Attributes |-> [kind |-> "list",
                     items |-> <<[Type |-> <<"D">>, Text |-> <<"5">>],
                                 [Type |-> <<"F">>, Text |-> <<>>]>>]]

BareEntity == [Text |-> <<"n">>, Category |-> <<"C">>, Type |-> <<"T">>, Score |-> 1]

\* what client.detect_entities_v2 may return
ComprehendResponses ==
    {[Entities |-> <<>>], [Entities |-> <<Entity, BareEntity>>]}

ComprehendOutcomes == {Failure} \cup {Success(r) : r \in ComprehendResponses}

\* the documents extract_medical_entities sends to Comprehend Medical
subset_data(text_data, to_process) ==
    IF Falsy(text_data) THEN {}
    ELSE LET keys == IF to_process = {} THEN DOMAIN text_data.data ELSE to_process
         IN {key \in keys : key \in DOMAIN text_data.data}

\* entity_dict of extract_medical_entities
entity_dict(text_data, to_process, outcome) ==
    [file_name \in {k \in subset_data(text_data, to_process) : outcome[k].ok} |->
        outcome[file_name].response]

\* a plausible slip: the new entries replace the file
extract_medical_entities_overwriting(text_data, to_process, outcome, save_path) ==
    IF Falsy(text_data) THEN save_path
    ELSE [exists |-> TRUE, data |-> entity_dict(text_data, to_process, outcome)]

\* extract_medical_entities(save_data = True): processed_entities.json
\* afterwards; nothing is saved when there is no text data
extract_medical_entities(text_data, to_process, outcome, save_path) ==
    IF Falsy(text_data) THEN save_path
    ELSE LET existing_data == IF save_path.exists THEN save_path.data ELSE EmptyMap
         IN [exists |-> TRUE,
             data |-> Merged(existing_data, entity_dict(text_data, to_process, outcome))]

\* ------------------------------------------------------------------------
\* Summarizer stage (Task1/summary.py)
\* ------------------------------------------------------------------------

\* the "<Type>: <Text>" of the mappings that have both
RECURSIVE Parts(_)
Parts(attrs) ==
    IF Len(attrs) = 0 THEN <<>>
    ELSE LET a == Head(attrs)
             t == IF "Type" \in DOMAIN a THEN a.Type ELSE <<>>
             txt == IF "Text" \in DOMAIN a THEN a.Text ELSE <<>>
         IN (IF t # <<>> /\ txt # <<>> THEN <<t \o <<":", " ">> \o txt>> ELSE <<>>)
            \o Parts(Tail(attrs))

\* repr of a str of the alphabet used here (no quote, no backslash in it)
Quoted(str) == <<"'">> \o str \o <<"'">>

\* repr of an element of an Attributes list: a mapping with its keys in
\* the order Type, Text, or the int 7
ReprItem(a) ==
    IF "kind" \in DOMAIN a THEN <<"7">>
    ELSE LET type == IF "Type" \in DOMAIN a
                     THEN <<Quoted(<<"T", "y", "p", "e">>) \o <<":", " ">> \o Quoted(a.Type)>>
                     ELSE <<>>
             text == IF "Text" \in DOMAIN a
                     THEN <<Quoted(<<"T", "e", "x", "t">>) \o <<":", " ">> \o Quoted(a.Text)>>
                     ELSE <<>>
         IN <<"{">> \o Join(<<",", " ">>, type \o text) \o <<"}">>

\* str(attrs) of a list: what a table written from the raw column holds
Repr(attrs) ==
    <<"[">> \o Join(<<",", " ">>, [i \in 1..Len(attrs) |-> ReprItem(attrs[i])]) \o <<"]">>

\* the elements an Attributes list is drawn from: mappings with a Type and
\* a Text that may be empty, a mapping without Text, and an element that
\* is no mapping
AttrItems ==
    {[Type |-> t, Text |-> x] : t \in {<<>>, <<"D">>, <<"F">>}, x \in {<<>>, <<"5">>}}
        \cup {[Type |-> <<"D">>], [kind |-> "int"]}

MaxAttrs == 2

AttrLists == UNION {[1..n -> AttrItems] : n \in 0..MaxAttrs}

\* ast.literal_eval(str): the list whose repr str is, the int of a digit
\* string, and an exception for anything else
LiteralEvalRaises(str) ==
    /\ ~(\E attrs \in AttrLists : Repr(attrs) = str)
    /\ ~(str # <<>> /\ \A i \in 1..Len(str) : str[i] \in {"5", "7"})

LiteralEval(str) ==
    IF \E attrs \in AttrLists : Repr(attrs) = str
    THEN [kind |-> "list", items |-> CHOOSE attrs \in AttrLists : Repr(attrs) = str]
    ELSE [kind |-> "int"]

\* a plausible slip: a string that does not parse is returned as it is
summarize_attributes_keeping_text(attr_value) ==
    LET first == IF attr_value.kind = "ndarray"
                 THEN (IF Len(attr_value.items) = 0 THEN NoneObj ELSE attr_value.items[1])
                 ELSE attr_value
        parsed == IF first.kind = "str" /\ ~LiteralEvalRaises(first.value)
                  THEN LiteralEval(first.value)
                  ELSE first
    IN IF parsed.kind = "str" THEN parsed.value
       ELSE IF parsed.kind # "list" THEN PyNone
       ELSE LET parts == Parts(parsed.items)
            IN IF Len(parts) = 0 THEN PyNone ELSE Join(<<" ", "|", " ">>, parts)

\* summarize_attributes: None for None, NaN, an empty array, a string that
\* does not parse and anything that is no list; an array stands for its
\* first element and a string for what it parses to
summarize_attributes(attr_value) ==
    LET first == IF attr_value.kind = "ndarray"
                 THEN (IF Len(attr_value.items) = 0 THEN NoneObj ELSE attr_value.items[1])
                 ELSE attr_value
        parsed == IF first.kind = "str"
                  THEN (IF LiteralEvalRaises(first.value) THEN NoneObj
                        ELSE LiteralEval(first.value))
                  ELSE first
    IN IF parsed.kind # "list" THEN PyNone
       ELSE LET parts == Parts(parsed.items)
            IN IF Len(parts) = 0 THEN PyNone ELSE Join(<<" ", "|", " ">>, parts)

\* the row process_comprehend_results appends for an entity
Row(ent) ==
    [Text |-> ent.Text, Category |-> ent.Category, Type |-> ent.Type,
     Score |-> ent.Score,
     Attributes |-> summarize_attributes(IF "Attributes" \in DOMAIN ent
                                         THEN ent.Attributes ELSE NoneObj)]

\* rows of one file
Rows(response) ==
    LET entities == IF "Entities" \in DOMAIN response THEN response.Entities ELSE <<>>
    IN [i \in 1..Len(entities) |-> Row(entities[i])]

\* a plausible slip: the table is named after the stem of the image name
csv_path_of_stem(file_name) == Stem(file_name) \o SUMMARY_CSV

\* f"{file_name}_summary.csv"
csv_path(file_name) == file_name \o SUMMARY_CSV

\* the tables process_comprehend_results(save_data = True) writes: one for
\* every file of comprehend_data
summary_tables(comprehend_data) ==
    IF Falsy(comprehend_data) THEN EmptyMap
    ELSE [name \in {csv_path(file_name) : file_name \in DOMAIN comprehend_data.data} |->
             Rows(comprehend_data.data[CHOOSE file_name \in DOMAIN comprehend_data.data :
                                           csv_path(file_name) = name])]

\* data/processed_medical_data after process_comprehend_results
process_comprehend_results(comprehend_data, save_path) ==
    IF Falsy(comprehend_data) THEN save_path
    ELSE [exists |-> TRUE,
          files |-> Merged(makedirs(save_path).files, summary_tables(comprehend_data))]

\* ------------------------------------------------------------------------
\* Structurer stage (Task2/utils.py, Task2/summarizer_pipeline.py)
\* ------------------------------------------------------------------------

\* Path(name).suffix
Suffix(name) ==
    LET i == LastDot(name)
    IN IF i > 1 /\ i < Len(name) THEN SubSeq(name, i, Len(name)) ELSE <<>>

\* the stems of the structured files as check_existing_summaries takes them
existing_summaries(structured_data_path) ==
    {Replace(f, STRUCTURED_JSON, <<>>) :
        f \in {g \in listdir(structured_data_path) : EndsWith(Lower(g), JSON)}}

\* check_existing_summaries: what it returns (it also creates the folder of
\* the structured summaries when the folder of the tables exists)
check_existing_summaries(note_data_path, structured_data_path) ==
    IF ~note_data_path.exists
    THEN [to_summarize |-> {}, already_summarized |-> {}]
    ELSE LET all_files == {f \in listdir(note_data_path) : EndsWith(Lower(f), CSV)}
             csv_stems == {Stem(f) : f \in all_files}
             summarized_stems == existing_summaries(makedirs(structured_data_path))
         IN [to_summarize |-> {f \in csv_stems : f \notin summarized_stems},
             already_summarized |-> {f \in csv_stems : f \in summarized_stems}]

\* str(cell) of a cell pandas read back from the table: an empty cell is NaN
CellStr(cell) == IF cell = PyNone THEN <<"n", "a", "n">> ELSE cell

\* the line prepare_note_from_csv gives for a row
NoteLine(row) ==
    LET entity_attributes == Strip(CellStr(row.Attributes))
    IN Strip(CellStr(row.Category)) \o <<" ", "(">> \o Strip(CellStr(row.Type))
       \o <<")", ":", " ">> \o Strip(CellStr(row.Text))
       \o (IF entity_attributes # <<>> /\ Lower(entity_attributes) # <<"n", "a", "n">>
           THEN <<" ", "|", " ">> \o entity_attributes ELSE <<>>)

\* pd.read_csv raises EmptyDataError for the table of a file without
\* entities: a DataFrame without rows has no columns and is written as an
\* empty line
ReadCsvRaises(table) == Len(table) = 0

\* prepare_note_from_csv of a table that can be read
prepare_note_from_csv(table) ==
    Join(<<"\n">>, [i \in 1..Len(table) |-> NoteLine(table[i])])

\* summarize: a note per CSV file of data_path; {} when the folder does not
\* exist and when reading any of its tables raises
summarize(data_path) ==
    IF ~data_path.exists THEN EmptyMap
    ELSE LET csv_files == {f \in listdir(data_path) : EndsWith(Lower(f), CSV)}
         IN IF \E f \in csv_files : ReadCsvRaises(data_path.files[f])
            THEN EmptyMap
            ELSE [file_name \in csv_files |->
                     prepare_note_from_csv(data_path.files[file_name])]

\* the fields of MedicalNotes, all required strings
Fields == {"patient", "diagnosis", "treatment", "follow_up"}

\* what the LLM may hand to MedicalNotes: the four fields, follow_up
\* missing, a key beyond the four, an empty diagnosis
LLMArgs ==
    {[patient |-> <<"P">>, diagnosis |-> <<"D">>, treatment |-> <<"T">>,
      follow_up |-> <<"F">>],
     [patient |-> <<"P">>, diagnosis |-> <<"D">>, treatment |-> <<"T">>],
     [patient |-> <<"P">>, diagnosis |-> <<"D">>, treatment |-> <<"T">>,
      follow_up |-> <<"F">>, notes |-> <<"N">>],
     [patient |-> <<"P">>, diagnosis |-> <<>>, treatment |-> <<"T">>,
      follow_up |-> <<"F">>]}

\* MedicalNotes(**args) raises ValidationError: a required field is missing
\* (no field has a default)
ValidationRaises(args) == ~(Fields \subseteq DOMAIN args)

\* a plausible slip: the args are saved as the LLM gave them
MedicalNotesUnchecked(args) == args

\* MedicalNotes(**args).dict(): the four fields as given; the schema sets
\* neither a minimum length nor a policy for keys beyond its fields, which
\* a BaseModel ignores
MedicalNotes(args) == [k \in Fields |-> args[k]]

\* model.invoke raised, or the LLM handed these args to the schema
LLMOutcomes == {Failure} \cup {Success(args) : args \in LLMArgs}

\* the LLM raised or gave the four fields
PlainLLMOutcomes == {o \in LLMOutcomes : o.ok => DOMAIN o.response = Fields
                                                 /\ \A k \in Fields : o.response[k] # <<>>}

\* the try block of a document reached its end: response.dict() was saved
Structured(o) == o.ok /\ ~ValidationRaises(o.response)

\* save_dir / f"{file_stem}.json"
structured_path(file_name) == Stem(file_name) \o JSON

\* the files get_structured_summaries(summaries) writes: it is called
\* without to_summarize, so every summary is sent to the LLM
structured_files(summaries, outcome) ==
    [name \in {structured_path(f) :
                   f \in {g \in DOMAIN summaries : Structured(outcome[g])}} |->
        MedicalNotes(outcome[CHOOSE f \in DOMAIN summaries :
                                 Structured(outcome[f]) /\ structured_path(f) = name].response)]

\* a plausible slip: the first failure ends the loop and nothing is saved
get_structured_summaries_aborting(summaries, outcome, save_dir) ==
    [exists |-> TRUE,
     files |-> IF \E f \in DOMAIN summaries : ~Structured(outcome[f])
               THEN makedirs(save_dir).files
               ELSE Merged(makedirs(save_dir).files, structured_files(summaries, outcome))]

\* get_structured_summaries(summaries): data/structured_json afterwards
get_structured_summaries(summaries, outcome, save_dir) ==
    [exists |-> TRUE,
     files |-> Merged(makedirs(save_dir).files, structured_files(summaries, outcome))]

\* the folders a SummarizerPipeline may be given as data_path: the default
\* and the folder the docstring names
DataPaths == {"data/structured_json", "data/processed_medical_data"}

\* the default of the data_path parameter of SummarizerPipeline
DefaultDataPath == "data/structured_json"

\* the folder at data_path
DirAt(data_path, note_dir, structured_dir) ==
    IF data_path = "data/structured_json" THEN structured_dir ELSE note_dir

\* data_dict of summarize_data: the JSON files of the folder, loaded
json_files(dir) ==
    Loaded([file_name \in {f \in listdir(dir) : Lower(Suffix(f)) = JSON} |->
               dir.files[file_name]])

\* the documents summarize_data sends to the LLM: none when to_summarize is
\* empty, else every CSV file summarize finds in the folder at data_path
SentToLLM(data_path, note_dir, structured_dir) ==
    LET flag_dict == check_existing_summaries(note_dir, structured_dir)
        checked == IF note_dir.exists THEN makedirs(structured_dir) ELSE structured_dir
    IN IF flag_dict.to_summarize = {} THEN {}
       ELSE DOMAIN summarize(DirAt(data_path, note_dir, checked))

\* SummarizerPipeline(data_path).summarize_data() on the folders note_dir
\* and structured_dir, the LLM answering outcome: the structured folder
\* afterwards, what was returned or that os.listdir raised, the flags, and
\* the documents sent to the LLM
summarize_data(data_path, note_dir, structured_dir, outcome) ==
    LET flag_dict == check_existing_summaries(note_dir, structured_dir)
        checked == IF note_dir.exists THEN makedirs(structured_dir) ELSE structured_dir
    IN IF flag_dict.to_summarize = {}
       THEN LET dir == DirAt(data_path, note_dir, checked)
            IN [structured |-> checked,
                raised |-> ~dir.exists,
                data_dict |-> IF dir.exists THEN json_files(dir) ELSE NoneObj,
                flag_dict |-> flag_dict,
                sent |-> {}]
       ELSE LET summaries_dict == summarize(DirAt(data_path, note_dir, checked))
                saved == get_structured_summaries(summaries_dict, outcome, checked)
            IN [structured |-> saved,
                raised |-> FALSE,
                data_dict |-> json_files(DirAt(data_path, note_dir, saved)),
                flag_dict |-> flag_dict,
                sent |-> DOMAIN summaries_dict]

\* main of Task2: the exception of the pipeline is caught and a ValueError
\* only constructed, so None is returned
Task2Main(note_dir, structured_dir, outcome) ==
    summarize_data(DefaultDataPath, note_dir, structured_dir, outcome)

\* ------------------------------------------------------------------------
\* Index builder (Task3/pipelines/build_retriever.py,
\* Task3/components/retriever/faiss_retriever.py)
\* ------------------------------------------------------------------------

\* "Name of the patient is "
NAME_IS ==
    <<"N", "a", "m", "e", " ", "o", "f", " ", "t", "h", "e", " ", "p",
    "a", "t", "i", "e", "n", "t", " ", "i", "s", " ">>

\* ". The Patient's diagnosed detail is "
DIAGNOSED_IS ==
    <<".", " ", "T", "h", "e", " ", "P", "a", "t", "i", "e", "n", "t",
    "'", "s", " ", "d", "i", "a", "g", "n", "o", "s", "e", "d", " ", "d",
    "e", "t", "a", "i", "l", " ", "i", "s", " ">>

\* " and the suggested treatment is "
TREATMENT_IS ==
    <<" ", "a", "n", "d", " ", "t", "h", "e", " ", "s", "u", "g", "g",
    "e", "s", "t", "e", "d", " ", "t", "r", "e", "a", "t", "m", "e", "n",
    "t", " ", "i", "s", " ">>

\* " and the followup is "
FOLLOWUP_IS ==
    <<" ", "a", "n", "d", " ", "t", "h", "e", " ", "f", "o", "l", "l",
    "o", "w", "u", "p", " ", "i", "s", " ">>

\* "Not given"
NOT_GIVEN ==
    <<"N", "o", "t", " ", "g", "i", "v", "e", "n">>

\* "Not Given"
NOT_GIVEN_CAPITAL ==
    <<"N", "o", "t", " ", "G", "i", "v", "e", "n">>

\* v.get(key, default) of a structured record
RecordGet(v, key, default) == IF key \in DOMAIN v THEN v[key] ELSE default

\* a plausible slip: one spelling of the fallback for all four fields
RenderingOneFallback(v) ==
    NAME_IS \o RecordGet(v, "patient", NOT_GIVEN)
    \o DIAGNOSED_IS \o RecordGet(v, "diagnosis", NOT_GIVEN)
    \o TREATMENT_IS \o RecordGet(v, "treatment", NOT_GIVEN)
    \o FOLLOWUP_IS \o RecordGet(v, "follow_up", NOT_GIVEN)

\* txt of _json_converter
Rendering(v) ==
    NAME_IS \o RecordGet(v, "patient", NOT_GIVEN)
    \o DIAGNOSED_IS \o RecordGet(v, "diagnosis", NOT_GIVEN)
    \o TREATMENT_IS \o RecordGet(v, "treatment", NOT_GIVEN_CAPITAL)
    \o FOLLOWUP_IS \o RecordGet(v, "follow_up", NOT_GIVEN_CAPITAL)

\* an attribute of the pipeline object that was never assigned
Unset == [kind |-> "unset"]

\* a CreateRetrieverPipeline as constructed
NewPipeline == [data_dict |-> Unset, data |-> Unset]

\* _json_converter: data_dict is what main() of Task2 returned; data is
\* rebuilt unless iterating data_dict raised (caught, nothing is raised on)
json_converter(pipeline, returned) ==
    [data_dict |-> returned,
     data |-> IF returned.kind = "json"
              THEN Loaded([k \in DOMAIN returned.data |-> Rendering(returned.data[k])])
              ELSE pipeline.data]

\* create_documents_from_json raises for the pipeline: an attribute is unset
\* or None (AttributeError), or data lacks a file of data_dict (KeyError)
CreateDocumentsRaises(pipeline) ==
    \/ pipeline.data_dict.kind # "json"
    \/ pipeline.data.kind # "json"
    \/ ~(DOMAIN pipeline.data_dict.data \subseteq DOMAIN pipeline.data.data)

\* create_documents_from_json(data_dict, data): one Document per file
create_documents_from_json(data_dict, data) ==
    {[page_content |-> data.data[filename],
      metadata |-> [source_file |-> filename,
                    patient_name |-> RecordGet(data_dict.data[filename], "patient", PyNone)]] :
        filename \in DOMAIN data_dict.data}

\* the folder Task3/data/faiss_index: docs is the set of documents of the
\* index saved in it
NoIndexDir == [exists |-> FALSE, saved |-> FALSE, docs |-> {}]

\* FAISSRetriever(): os.makedirs(index_path, exist_ok = True)
IndexDirMade(index_dir) == [index_dir EXCEPT !.exists = TRUE]

\* what main_fn returned: nothing yet, None, or a FAISSRetriever with its db
NotReturned == [kind |-> "unset", db_loaded |-> FALSE, db |-> {}]

ReturnedNone == [kind |-> "None", db_loaded |-> FALSE, db |-> {}]

NewRetriever == [kind |-> "FAISSRetriever", db_loaded |-> FALSE, db |-> {}]

\* main_fn(build): what it returns and the index folder afterwards.  In
\* build mode the documents are created and dropped; in load mode
\* load_index finds the folder (the constructor has just made it) and
\* FAISS.load_local raises when no index was saved in it.  Every exception
\* is caught and None returned.
main_fn(build, pipeline, index_dir) ==
    IF build
    THEN [returned |-> IF CreateDocumentsRaises(pipeline) THEN ReturnedNone
                       ELSE NewRetriever,
          index_dir |-> IndexDirMade(index_dir)]
    ELSE [returned |-> IF index_dir.saved
                       THEN [NewRetriever EXCEPT !.db_loaded = TRUE,
                                                 !.db = index_dir.docs]
                       ELSE ReturnedNone,
          index_dir |-> IndexDirMade(index_dir)]

\* load_index(): the folder exists once a FAISSRetriever was constructed;
\* FAISS.load_local raises when no index was saved in it
LoadIndexRaises(index_dir) == ~index_dir.exists \/ ~index_dir.saved

load_index(retriever, index_dir) ==
    [retriever EXCEPT !.db_loaded = TRUE, !.db = index_dir.docs]

\* what db.similarity_search(query, k = top_k) may return: the top_k nearest
\* documents of the index, all of them when it holds fewer
SearchResults(db, top_k) ==
    {r \in SUBSET db :
        Cardinality(r) = IF Cardinality(db) < top_k THEN Cardinality(db) ELSE top_k}

\* build_index(documents) of a retriever raises ValueError
BuildIndexRaises(documents) == documents = {}

\* build_index(documents): FAISS.from_documents and save_local
build_index(retriever, documents) ==
    [returned |-> [retriever EXCEPT !.db_loaded = TRUE, !.db = documents],
     index_dir |-> [exists |-> TRUE, saved |-> TRUE, docs |-> documents]]

\* ------------------------------------------------------------------------
\* State
\* ------------------------------------------------------------------------

VARIABLES
    checkpoint,   \* the checkpointer: thread_id -> the AgentState last committed
    inv,          \* per request handler: the graph invocation it runs
    nTurns,       \* requests accepted so far
    turns,        \* per unique_id: the (question, answer) of its grounded turns
    overlapped,   \* per thread_id: two invocations were in flight at once
    u_in,         \* arguments of a call of update_recent_chats
    u_called,     \* the call has returned
    u_out,        \* what it returned
    a_in,         \* the argument of a call of summarize_attributes
    a_called,     \* the call has returned
    a_out,        \* what it returned
    g_in,         \* the state and the LLM's grades of a call of doc_grader
    g_called,     \* the call has returned
    g_out,        \* what it returned, and the LLM calls it made
    d_in,         \* the arguments of a call of extract_medical_entities
    d_called,     \* the call has returned
    d_out,        \* the documents it sent, what it returned and saved
    env,          \* the environment values that are set when the API starts
    app,          \* the FastAPI app: where its lifespan is, requests served
    raw_images,              \* the folder data/raw_images
    processed_text,          \* data/processed_images/processed_text.json
    processed_entities,      \* data/processed_medical/processed_entities.json
    processed_medical_data,  \* the folder of the summary tables
    structured_json,         \* the folder data/structured_json
    run,          \* main of Task1: the stage it is at and its locals
    ingested,     \* the images of the last runs that ended without a failure
    log,          \* the last operation: its flags, calls, writes, exception
    pipeline,     \* the CreateRetrieverPipeline object
    retriever,    \* what main_fn returned
    faiss_index   \* the folder Task3/data/faiss_index

vars ==
    <<checkpoint, inv, nTurns, turns, overlapped, u_in, u_called, u_out,
      a_in, a_called, a_out, g_in, g_called, g_out,
      d_in, d_called, d_out, env, app,
      raw_images, processed_text, processed_entities, processed_medical_data,
      structured_json, run, ingested, log, pipeline, retriever, faiss_index>>

graphVars == <<checkpoint, inv, nTurns, turns, overlapped>>

updateVars == <<u_in, u_called, u_out>>

normalizeVars == <<a_in, a_called, a_out>>

serviceVars == <<env, app>>

graderVars == <<g_in, g_called, g_out>>

detectVars == <<d_in, d_called, d_out>>

fsVars ==
    <<raw_images, processed_text, processed_entities, processed_medical_data,
      structured_json>>

indexVars == <<pipeline, retriever, faiss_index>>

pipelineVars == <<fsVars, run, ingested, log, indexVars>>

NoResponse == [status |-> 0, body |-> PyNone]

IdleInvocation ==
    [pc |-> "idle",
     unique_id |-> "",
     thread_id |-> "",
     state |-> NoState,
     start |-> NoState,
     trace |-> <<>>,
     scores |-> <<>>,
     rewriter_failed |-> FALSE,
     response |-> NoResponse]

NoUpdateCall ==
    [recent_chats |-> EmptyDict, latest_question |-> <<>>, answer |-> <<>>,
     max_chats |-> MAX_CHATS]

InitGraph ==
    /\ checkpoint = [t \in Threads |-> NoState]
    /\ inv = [s \in Slots |-> IdleInvocation]
    /\ nTurns = 0
    /\ turns = [t \in Threads |-> <<>>]
    /\ overlapped = [t \in Threads |-> FALSE]

\* main of Task1 is not running
IdleRun ==
    [pc |-> "idle", data_dict |-> NoneObj, comprehend_data |-> NoneObj,
     failed |-> FALSE]

NotIngested == [ok |-> FALSE, images |-> {}]

NoLog ==
    [op |-> "none", flag_dict |-> NoneObj, called |-> {}, written |-> {},
     failed |-> {}, raised |-> "none"]

\* nothing has been ingested: none of the folders and files exists
InitFiles ==
    /\ raw_images = NoDir
    /\ processed_text = NoFile
    /\ processed_entities = NoFile
    /\ processed_medical_data = NoDir
    /\ structured_json = NoDir

InitRun ==
    /\ run = IdleRun
    /\ ingested = [task1 |-> NotIngested, task2 |-> NotIngested]
    /\ log = NoLog

InitBuilder ==
    /\ pipeline = NewPipeline
    /\ retriever = NotReturned
    /\ faiss_index = NoIndexDir

InitPipeline == InitFiles /\ InitRun /\ InitBuilder

InitUpdateCall ==
    /\ u_in = NoUpdateCall
    /\ u_called = FALSE
    /\ u_out = EmptyDict

InitNormalizeCall ==
    /\ a_in = NoneObj
    /\ a_called = FALSE
    /\ a_out = PyNone

\* the values graph.py and the OpenAI clients read from the environment
RequiredEnv == {"OPENAI_API_KEY", "MONGODB_URI", "DB_NAME", "COLLECTION_NAME"}

\* the app before uvicorn has entered its lifespan
NotStarted == [pc |-> "starting", raised |-> "none", served |-> 0, status |-> 0]

InitService ==
    /\ env = RequiredEnv
    /\ app = NotStarted

NoGraderCall == [state |-> NoState, scores |-> <<>>]

InitGraderCall ==
    /\ g_in = NoGraderCall
    /\ g_called = FALSE
    /\ g_out = [state |-> NoState, calls |-> 0]

NoDetectCall == [text_data |-> NoneObj, to_process |-> {}, outcome |-> EmptyMap]

NotDetected == [called |-> {}, entity_dict |-> EmptyMap, save_path |-> NoFile]

InitDetectCall ==
    /\ d_in = NoDetectCall
    /\ d_called = FALSE
    /\ d_out = NotDetected

InitCalls ==
    InitUpdateCall /\ InitNormalizeCall /\ InitGraderCall /\ InitDetectCall /\ InitService

Init ==
    /\ InitGraph
    /\ InitCalls
    /\ InitPipeline

NodeNames ==
    {"query_rewriter", "doc_retriever", "doc_grader", "answer_generation",
     "fallback_agent"}

\* the invocation of handler s is between START and END
InFlight(s) == inv[s].pc \in NodeNames

\* ------------------------------------------------------------------------
\* POST /generate (Task3/main.py) and the graph engine (Task3/graph.py)
\* ------------------------------------------------------------------------

\* a plausible slip: one thread_id for every request
ConfigThreadIdFixed(unique_id) == "t1"

\* config["configurable"]["thread_id"] of graph.ainvoke
ConfigThreadId(unique_id) == unique_id

\* what ask_query answers once graph.ainvoke has returned result
OkResponse(result) ==
    [status |-> 200,
     body |-> GetKey(result, "generated_answer", <<"No answer generated.">>)]

\* what ask_query answers when graph.ainvoke raised
ErrorResponse == [status |-> 500, body |-> <<"detail">>]

\* what outlives the return of ask_query of the handler's AgentState: the
\* handler's locals are gone, the conversation is kept to state the claims
Returned(state) ==
    [NoState EXCEPT !.keys = state.keys \cap {"conversation"},
                    !.conversation = state.conversation]

\* the engine after node has returned newstate: the state is committed to
\* the checkpointer under the invocation's thread_id and the edge is followed
\* (noted is inv[s] with what the node's collaborators returned written down)
Committed(s, noted, node, newstate, next) ==
    /\ inv' = [inv EXCEPT ![s] =
                  [noted EXCEPT !.pc = next,
                                !.state = IF next = "END" THEN Returned(newstate)
                                          ELSE newstate,
                                !.start = IF next = "END" THEN Returned(@) ELSE @,
                                !.scores = IF next = "END" THEN <<>> ELSE @,
                                !.trace = Append(@, node),
                                !.response =
                                    IF next = "END" THEN OkResponse(newstate)
                                    ELSE @]]
    /\ checkpoint' = [checkpoint EXCEPT ![inv[s].thread_id] = newstate]

\* the handler that takes the next request: the first one that is free
FreeSlot == IF ~InFlight("r1") THEN "r1" ELSE "r2"

\* ask_query up to the first node: the input {"user_query": q} is applied to
\* the state last committed for the thread and the graph is entered at START
AskQuery(s, uid, q) ==
    /\ s = FreeSlot
    /\ ~InFlight(s)
    /\ nTurns < MaxTurns
    /\ LET thread_id == ConfigThreadId(uid)
           loaded == checkpoint[thread_id]
           st == SetKey(loaded, "user_query", q)
       IN /\ inv' = [inv EXCEPT ![s] =
                        [IdleInvocation EXCEPT !.pc = EdgeTarget("START"),
                                               !.unique_id = uid,
                                               !.thread_id = thread_id,
                                               !.state = st,
                                               !.start = loaded]]
          /\ checkpoint' = [checkpoint EXCEPT ![thread_id] = st]
          /\ overlapped' =
                 [overlapped EXCEPT ![thread_id] =
                     @ \/ \E o \in Slots \ {s} :
                              InFlight(o) /\ inv[o].thread_id = thread_id]
    /\ nTurns' = nTurns + 1
    /\ UNCHANGED <<turns, updateVars, normalizeVars, serviceVars, graderVars, detectVars, pipelineVars>>

\* what model.ainvoke of the rewriter may return
RewriterResponses(q) ==
    {[ok |-> TRUE, rephrased_question |-> Rewrite(q), tool_flag |-> ToolQuery(q)],
     [ok |-> FALSE, rephrased_question |-> PyNone, tool_flag |-> FALSE]}

RunQueryRewriter(s) ==
    /\ inv[s].pc = "query_rewriter"
    /\ \E response \in RewriterResponses(inv[s].state.user_query) :
          Committed(s, [inv[s] EXCEPT !.rewriter_failed = ~response.ok],
                    "query_rewriter",
                    query_rewriter(inv[s].state, response),
                    EdgeTarget("query_rewriter"))
    /\ UNCHANGED <<nTurns, turns, overlapped, updateVars, normalizeVars, serviceVars, graderVars, detectVars, pipelineVars>>

\* what retrieve(query, top_k) may return: at most top_k documents of the index
RetrieveResults == {r \in SeqsUpTo(IndexDocs, TOP_K) : NoDup(r)}

RunDocRetriever(s) ==
    /\ inv[s].pc = "doc_retriever"
    /\ \E results \in RetrieveResults :
          Committed(s, inv[s],
                    "doc_retriever",
                    doc_retriever(inv[s].state, results),
                    EdgeTarget("doc_retriever"))
    /\ UNCHANGED <<nTurns, turns, overlapped, updateVars, normalizeVars, serviceVars, graderVars, detectVars, pipelineVars>>

RunDocGrader(s) ==
    /\ inv[s].pc = "doc_grader"
    /\ "documents" \in inv[s].state.keys
    /\ \E scores \in SeqsOfLen(Scores, Len(inv[s].state.documents)) :
          LET newstate == doc_grader(inv[s].state, scores)
          IN Committed(s, [inv[s] EXCEPT !.scores = scores],
                       "doc_grader", newstate,
                       ConditionalTarget(no_relevant_docs(newstate)))
    /\ UNCHANGED <<nTurns, turns, overlapped, updateVars, normalizeVars, serviceVars, graderVars, detectVars, pipelineVars>>

RunAnswerGeneration(s) ==
    /\ inv[s].pc = "answer_generation"
    /\ \E answer \in Answers :
          /\ Committed(s, inv[s], "answer_generation",
                       answer_generation(inv[s].state, answer),
                       EdgeTarget("answer_generation"))
          /\ turns' = [turns EXCEPT ![inv[s].unique_id] =
                          Append(@, [question |-> inv[s].state.rephrased_question,
                                     answer |-> answer])]
    /\ UNCHANGED <<nTurns, overlapped, updateVars, normalizeVars, serviceVars, graderVars, detectVars, pipelineVars>>

RunFallbackAgent(s) ==
    /\ inv[s].pc = "fallback_agent"
    /\ Committed(s, inv[s], "fallback_agent", fallback_agent(inv[s].state),
                 EdgeTarget("fallback_agent"))
    /\ UNCHANGED <<nTurns, turns, overlapped, updateVars, normalizeVars, serviceVars, graderVars, detectVars, pipelineVars>>

\* the nodes whose failure is not caught in the node
RaisingNodes == {"doc_retriever", "doc_grader", "answer_generation"}

\* a collaborator call of the node raises: graph.ainvoke raises, nothing is
\* committed for the node, and ask_query answers with HTTPException(500)
NodeRaises(s) ==
    /\ inv[s].pc \in RaisingNodes
    /\ inv' = [inv EXCEPT ![s].pc = "failed",
                          ![s].state = Returned(@),
                          ![s].start = Returned(@),
                          ![s].scores = <<>>,
                          ![s].trace = Append(@, inv[s].pc),
                          ![s].response = ErrorResponse]
    /\ UNCHANGED <<checkpoint, nTurns, turns, overlapped, updateVars, normalizeVars, serviceVars, graderVars, detectVars, pipelineVars>>

NextGraph ==
    \/ \E s \in Slots, uid \in Threads : \E q \in Queries(uid) : AskQuery(s, uid, q)
    \/ \E s \in Slots : RunQueryRewriter(s)
    \/ \E s \in Slots : RunDocRetriever(s)
    \/ \E s \in Slots : RunDocGrader(s)
    \/ \E s \in Slots : RunAnswerGeneration(s)
    \/ \E s \in Slots : RunFallbackAgent(s)
    \/ \E s \in Slots : NodeRaises(s)

Next == NextGraph

Spec == Init /\ [][Next]_vars

\* ------------------------------------------------------------------------
\* update_recent_chats as a function of its arguments
\* ------------------------------------------------------------------------

\* the {question, answer} entries a recent_chats argument holds
Entries ==
    {[question |-> <<"a">>, answer |-> <<"x">>],
     [question |-> <<"b">>, answer |-> <<"y">>]}

\* key sequences of n distinct keys: 1..n, n..1, and 3, 5, ..
KeySeqs(n) ==
    {[i \in 1..n |-> i], [i \in 1..n |-> n + 1 - i], [i \in 1..n |-> 2 * i + 1]}

\* the recent_chats arguments: mappings, and a value that is not a mapping
RecentInputs ==
    {[kind |-> "dict", items |-> [i \in 1..Len(vs) |-> [k |-> ks[i], v |-> vs[i]]]] :
        <<vs, ks>> \in {p \in SeqsUpTo(Entries, MaxRecentLen)
                                \X UNION {KeySeqs(n) : n \in 0..MaxRecentLen} :
                            Len(p[1]) = Len(p[2])}}
    \cup {EmptyList}

QuestionInputs == {<<"q">>, <<" ", "q", " ">>}

AnswerInputs == {<<"z">>, <<"z", " ">>}

MaxChatsInputs == (0 - 1)..MaxMaxChats

InitUpdate ==
    /\ InitGraph
    /\ u_in \in [recent_chats : RecentInputs, latest_question : QuestionInputs,
                 answer : AnswerInputs, max_chats : MaxChatsInputs]
    /\ u_called = FALSE
    /\ u_out = EmptyDict
    /\ InitNormalizeCall
    /\ InitGraderCall
    /\ InitDetectCall
    /\ InitService
    /\ InitPipeline

CallUpdate ==
    /\ ~u_called
    /\ u_called' = TRUE
    /\ u_out' = update_recent_chats(u_in.recent_chats, u_in.latest_question,
                                    u_in.answer, u_in.max_chats)
    /\ UNCHANGED <<u_in, normalizeVars, serviceVars, graderVars, detectVars, graphVars, pipelineVars>>

NextUpdate == CallUpdate

SpecUpdate == InitUpdate /\ [][NextUpdate]_vars

\* ------------------------------------------------------------------------
\* doc_grader as a function of the state and of the LLM's grades
\* ------------------------------------------------------------------------

MaxDocs == 2

\* the documents doc_retriever may have left in the state
GraderDocs == {"d1", "d2"}

\* what the grader LLM may return as score
GraderScores ==
    {<<" ", "Y", "e", "s">>, <<"Y", "E", "S", " ">>, <<"N", "o">>, <<"y", "e", "s", ".">>}

\* the states doc_grader runs on: after query_rewriter and doc_retriever, on
\* a first turn or with proceed_to_generate left by an earlier turn
GraderStates ==
    {SetKey(SetKey(query_rewriter(SetKey(NoState, "user_query", <<"a">>),
                                  [ok |-> TRUE,
                                   rephrased_question |-> Rewrite(<<"a">>),
                                   tool_flag |-> ToolQuery(<<"a">>)]),
                   "proceed_to_generate", earlier),
            "documents", documents) :
        earlier \in BOOLEAN, documents \in SeqsUpTo(GraderDocs, MaxDocs)}

GraderInputs ==
    {[state |-> state, scores |-> scores] :
        state \in GraderStates, scores \in SeqsUpTo(GraderScores, MaxDocs)}

InitGrader ==
    /\ InitGraph
    /\ InitUpdateCall
    /\ InitNormalizeCall
    /\ g_in \in {i \in GraderInputs : Len(i.scores) = Len(i.state.documents)}
    /\ g_called = FALSE
    /\ g_out = [state |-> NoState, calls |-> 0]
    /\ InitDetectCall
    /\ InitService
    /\ InitPipeline

CallGrader ==
    /\ ~g_called
    /\ g_called' = TRUE
    /\ g_out' = [state |-> doc_grader(g_in.state, g_in.scores),
                 calls |-> grader_calls(g_in.state)]
    /\ UNCHANGED <<g_in, updateVars, normalizeVars, serviceVars, detectVars, graphVars, pipelineVars>>

NextGrader == CallGrader

SpecGrader == InitGrader /\ [][NextGrader]_vars

\* ------------------------------------------------------------------------
\* summarize_attributes as a function of its argument
\* ------------------------------------------------------------------------

Str(value) == [kind |-> "str", value |-> value]

List(items) == [kind |-> "list", items |-> items]

\* the strings summarize_attributes returns for the lists of AttrLists
Flattened ==
    {summarize_attributes(List(attrs)) : attrs \in {l \in AttrLists : Len(Parts(l)) > 0}}

\* what reaches summarize_attributes: None, NaN, a number, a list, the
\* repr of a list, a flattened column, other text, and arrays of these
ScalarInputs ==
    {NoneObj, [kind |-> "nan"], [kind |-> "int"]}
        \cup {List(attrs) : attrs \in AttrLists}
        \cup {Str(Repr(attrs)) : attrs \in AttrLists}
        \cup {Str(str) : str \in Flattened}
        \cup {Str(<<>>), Str(<<"5">>), Str(<<"D">>)}

ArrayInputs ==
    {[kind |-> "ndarray", items |-> <<>>]}
        \cup {[kind |-> "ndarray", items |-> <<v>>] :
                 v \in {NoneObj, List(<<>>), List(<<[Type |-> <<"D">>, Text |-> <<"5">>]>>),
                        Str(<<"D", ":", " ", "5">>),
                        Str(Repr(<<[Type |-> <<"F">>, Text |-> <<"5">>]>>))}}

NormalizerInputs == ScalarInputs \cup ArrayInputs

InitNormalize ==
    /\ InitGraph
    /\ InitUpdateCall
    /\ a_in \in NormalizerInputs
    /\ a_called = FALSE
    /\ a_out = PyNone
    /\ InitGraderCall
    /\ InitDetectCall
    /\ InitService
    /\ InitPipeline

CallNormalize ==
    /\ ~a_called
    /\ a_called' = TRUE
    /\ a_out' = summarize_attributes(a_in)
    /\ UNCHANGED <<a_in, updateVars, serviceVars, graderVars, detectVars, graphVars, pipelineVars>>

NextNormalize == CallNormalize

SpecNormalize == InitNormalize /\ [][NextNormalize]_vars

\* ------------------------------------------------------------------------
\* Runs of the ingestion pipeline (Task1/main.py, Task2/main.py)
\* ------------------------------------------------------------------------

\* the images of the raw image folder
ImagesOf(dir) == {f \in listdir(dir) : IsImageName(f)}

\* the calls of a collaborator, one per document
Calls(service, docs) == {[service |-> service, doc |-> d] : d \in docs}

\* the entries or files written to an artifact
Writes(artifact, keys) == {[artifact |-> artifact, key |-> k] : k \in keys}

\* some call of the collaborator raised
SomeFailed(outcome) == \E d \in DOMAIN outcome : ~outcome[d].ok

\* the documents whose structured summary was not made
NotStructured(outcome) == {d \in DOMAIN outcome : ~Structured(outcome[d])}

\* the folder data/raw_images is created
MakeRawImages ==
    /\ run.pc = "idle"
    /\ ~raw_images.exists
    /\ raw_images' = makedirs(raw_images)
    /\ log' = [NoLog EXCEPT !.op = "mkdir"]
    /\ UNCHANGED <<processed_text, processed_entities, processed_medical_data,
                   structured_json, run, ingested, indexVars, graphVars, updateVars, normalizeVars, serviceVars, graderVars, detectVars>>

\* a file is dropped into data/raw_images
AddImage(f) ==
    /\ run.pc = "idle"
    /\ raw_images.exists
    /\ f \notin listdir(raw_images)
    /\ raw_images' = [raw_images EXCEPT !.files = Merged(@, [k \in {f} |-> <<>>])]
    /\ log' = [NoLog EXCEPT !.op = "add"]
    /\ UNCHANGED <<processed_text, processed_entities, processed_medical_data,
                   structured_json, run, ingested, indexVars, graphVars, updateVars, normalizeVars, serviceVars, graderVars, detectVars>>

\* main of Task1, first stage: TextractPipeline().extract_data().  The
\* FileNotFoundError of os.listdir for a missing image folder and the
\* exception of an image that cannot be read are raised on by main: the
\* images the loop reached before it (os.listdir gives no order) were sent
\* to Textract and nothing is saved.
ExtractData ==
    /\ run.pc = "idle"
    /\ IF ~raw_images.exists
       THEN /\ log' = [NoLog EXCEPT !.op = "extract_data",
                                    !.raised = "FileNotFoundError"]
            /\ UNCHANGED <<processed_text, run>>
       ELSE LET flag_dict == check_existing_extractions(raw_images, processed_text)
            IN IF flag_dict.to_process = {}
               THEN /\ run' = [IdleRun EXCEPT !.pc = "extract_info",
                                              !.data_dict = open_file(processed_text)]
                    /\ log' = [NoLog EXCEPT !.op = "extract_data",
                                            !.flag_dict = flag_dict]
                    /\ UNCHANGED processed_text
               ELSE \E outcome \in [flag_dict.to_process -> ImageOutcomes] :
                       IF ExtractImageDataRaises(flag_dict.to_process, outcome)
                       THEN \E sent \in SUBSET {i \in flag_dict.to_process :
                                                   outcome[i] # Unreadable} :
                               /\ log' = [NoLog EXCEPT
                                             !.op = "extract_data",
                                             !.flag_dict = flag_dict,
                                             !.called = Calls("textract", sent),
                                             !.failed = {i \in flag_dict.to_process :
                                                            ~outcome[i].ok},
                                             !.raised = "OSError"]
                               /\ UNCHANGED <<processed_text, run>>
                       ELSE LET data == extract_image_data(flag_dict.to_process, outcome)
                                saved == get_relevant_data(data, processed_text)
                            IN /\ processed_text' = saved
                               /\ run' = [IdleRun EXCEPT !.pc = "extract_info",
                                                         !.data_dict = open_file(saved),
                                                         !.failed = SomeFailed(outcome)]
                               /\ log' = [NoLog EXCEPT
                                             !.op = "extract_data",
                                             !.flag_dict = flag_dict,
                                             !.called = Calls("textract",
                                                              flag_dict.to_process),
                                             !.written = Writes("processed_text.json",
                                                                DOMAIN data),
                                             !.failed = {i \in flag_dict.to_process :
                                                            ~outcome[i].ok}]
    /\ UNCHANGED <<raw_images, processed_entities, processed_medical_data,
                   structured_json, ingested, indexVars, graphVars, updateVars, normalizeVars, serviceVars, graderVars, detectVars>>

\* main of Task1, second stage: ComprehendPipeline().extract_info(data_dict)
ExtractInfo ==
    /\ run.pc = "extract_info"
    /\ LET flag_dict == check_existing_comprehend(processed_text, processed_entities)
       IN IF flag_dict.to_analyze = {}
          THEN /\ run' = [run EXCEPT !.pc = "process_comprehend_results",
                                     !.comprehend_data = open_file(processed_entities)]
               /\ log' = [NoLog EXCEPT !.op = "extract_info", !.flag_dict = flag_dict]
               /\ UNCHANGED processed_entities
          ELSE LET docs == subset_data(run.data_dict, flag_dict.to_analyze)
               IN \E outcome \in [docs -> ComprehendOutcomes] :
                     LET saved == extract_medical_entities(run.data_dict, flag_dict.to_analyze,
                                                           outcome, processed_entities)
                     IN /\ processed_entities' = saved
                        /\ run' = [run EXCEPT !.pc = "process_comprehend_results",
                                              !.comprehend_data = open_file(saved),
                                              !.failed = @ \/ SomeFailed(outcome)]
                        /\ log' = [NoLog EXCEPT
                                      !.op = "extract_info",
                                      !.flag_dict = flag_dict,
                                      !.called = Calls("comprehendmedical", docs),
                                      !.written =
                                          Writes("processed_entities.json",
                                                 DOMAIN entity_dict(run.data_dict,
                                                                    flag_dict.to_analyze,
                                                                    outcome)),
                                      !.failed = {d \in docs : ~outcome[d].ok}]
    /\ UNCHANGED <<raw_images, processed_text, processed_medical_data,
                   structured_json, ingested, indexVars, graphVars, updateVars, normalizeVars, serviceVars, graderVars, detectVars>>

\* main of Task1, third stage: process_comprehend_results(comprehend_data,
\* save_data = True); main returns
ProcessComprehendResults ==
    /\ run.pc = "process_comprehend_results"
    /\ processed_medical_data' =
           process_comprehend_results(run.comprehend_data, processed_medical_data)
    /\ run' = IdleRun
    /\ log' = [NoLog EXCEPT
                  !.op = "process_comprehend_results",
                  !.written = Writes("processed_medical_data",
                                     DOMAIN summary_tables(run.comprehend_data))]
    /\ ingested' = IF run.failed THEN ingested
                   ELSE [ingested EXCEPT
                            !.task1 = [ok |-> TRUE, images |-> ImagesOf(raw_images)]]
    /\ UNCHANGED <<raw_images, processed_text, processed_entities, structured_json,
                   indexVars, graphVars, updateVars, normalizeVars, serviceVars, graderVars, detectVars>>

\* SummarizerPipeline(data_path).summarize_data(), as main of Task2 runs it
\* for the default data_path; the FileNotFoundError of os.listdir is caught
\* by main
SummarizeData(data_path, outcomes) ==
    /\ run.pc = "idle"
    /\ \E outcome \in [SentToLLM(data_path, processed_medical_data, structured_json)
                          -> outcomes] :
          LET r == summarize_data(data_path, processed_medical_data, structured_json,
                                  outcome)
          IN /\ structured_json' = r.structured
             /\ log' = [op |-> "summarize_data",
                        data_path |-> data_path,
                        flag_dict |-> r.flag_dict,
                        called |-> Calls("openai", r.sent),
                        written |-> Writes("structured_json",
                                           {structured_path(f) :
                                               f \in r.sent \ NotStructured(outcome)}),
                        failed |-> NotStructured(outcome),
                        answers |-> outcome,
                        raised |-> IF r.raised THEN "FileNotFoundError" ELSE "none"]
             /\ ingested' =
                    IF data_path = DefaultDataPath /\ ~r.raised /\ NotStructured(outcome) = {}
                       /\ ingested.task1.ok
                       /\ ingested.task1.images = ImagesOf(raw_images)
                    THEN [ingested EXCEPT !.task2 = ingested.task1]
                    ELSE ingested
    /\ UNCHANGED <<raw_images, processed_text, processed_entities,
                   processed_medical_data, run, indexVars, graphVars, updateVars, normalizeVars, serviceVars, graderVars, detectVars>>

NextIngest ==
    \/ MakeRawImages
    \/ \E f \in RawFiles : AddImage(f)
    \/ ExtractData
    \/ ExtractInfo
    \/ ProcessComprehendResults
    \/ \E data_path \in DataPaths : SummarizeData(data_path, PlainLLMOutcomes)

InitIngest ==
    /\ InitGraph
    /\ InitCalls
    /\ InitPipeline

SpecIngest == InitIngest /\ [][NextIngest]_vars

\* ------------------------------------------------------------------------
\* extract_medical_entities as a function of its arguments
\* ------------------------------------------------------------------------

\* the file names of the arguments
DetectDocs == {A_PNG, B_PNG}

\* text_data: None, or the texts of some of the files
DetectTexts ==
    {NoneObj} \cup {Loaded([k \in keys |-> <<"x">>]) : keys \in SUBSET DetectDocs}

\* text_data, to_process (None and [] alike are the empty set) and what
\* detect_entities_v2 does for each document sent
DetectInputs ==
    {[text_data |-> text_data, to_process |-> to_process, outcome |-> outcome] :
        text_data \in DetectTexts, to_process \in SUBSET DetectDocs,
        outcome \in [DetectDocs -> ComprehendOutcomes]}

InitDetect ==
    /\ InitGraph
    /\ InitUpdateCall
    /\ InitNormalizeCall
    /\ InitGraderCall
    /\ d_in \in DetectInputs
    /\ d_called = FALSE
    /\ d_out = NotDetected
    /\ InitService
    /\ InitPipeline

\* extract_medical_entities(client, text_data, to_process, save_data = True)
\* with no processed_entities.json yet
CallDetect ==
    /\ ~d_called
    /\ d_called' = TRUE
    /\ d_out' = [called |-> subset_data(d_in.text_data, d_in.to_process),
                 entity_dict |->
                     IF Falsy(d_in.text_data) THEN EmptyMap
                     ELSE entity_dict(d_in.text_data, d_in.to_process, d_in.outcome),
                 save_path |-> extract_medical_entities(d_in.text_data, d_in.to_process,
                                                        d_in.outcome, NoFile)]
    /\ UNCHANGED <<d_in, updateVars, normalizeVars, graderVars, serviceVars,
                   graphVars, pipelineVars>>

NextDetect == CallDetect

SpecDetect == InitDetect /\ [][NextDetect]_vars

\* ------------------------------------------------------------------------
\* Building the retriever (Task3/pipelines/build_retriever.py)
\* ------------------------------------------------------------------------

\* the state of the files after a.png and b.png were ingested
IngestedTexts == [k \in {A_PNG, B_PNG} |-> <<"x", " ", "y">>]

IngestedEntities == [k \in {A_PNG, B_PNG} |-> [Entities |-> <<Entity, BareEntity>>]]

\* a structured record of an earlier ingest, kept under this name
OLD_JSON == <<"o">> \o JSON

\* the records data/structured_json may hold from elsewhere: any of the
\* four fields may be absent
StoredRecords ==
    {[k \in present |-> <<"v">>] : present \in SUBSET Fields}

\* the builder starts before anything was ingested, or after main of Task1
\* has ingested a.png and b.png, or with only a structured record at hand
InitBuild ==
    /\ InitGraph
    /\ InitCalls
    /\ InitRun
    /\ InitBuilder
    /\ \/ InitFiles
       \/ /\ raw_images = [exists |-> TRUE, files |-> [k \in {A_PNG, B_PNG} |-> <<>>]]
          /\ processed_text = [exists |-> TRUE, data |-> IngestedTexts]
          /\ processed_entities = [exists |-> TRUE, data |-> IngestedEntities]
          /\ processed_medical_data =
                 process_comprehend_results(Loaded(IngestedEntities), NoDir)
          /\ structured_json = NoDir
       \/ /\ raw_images = NoDir
          /\ processed_text = NoFile
          /\ processed_entities = NoFile
          /\ processed_medical_data = NoDir
          /\ \E v \in StoredRecords :
                structured_json = [exists |-> TRUE, files |-> [k \in {OLD_JSON} |-> v]]

\* pipeline._json_converter(): main of Task2 runs and what it returns is
\* rendered
JsonConverter ==
    /\ \E outcome \in [SentToLLM(DefaultDataPath, processed_medical_data, structured_json)
                          -> LLMOutcomes] :
          LET r == Task2Main(processed_medical_data, structured_json, outcome)
          IN /\ structured_json' = r.structured
             /\ pipeline' = json_converter(pipeline,
                                           IF r.raised THEN NoneObj ELSE r.data_dict)
             /\ log' = [NoLog EXCEPT !.op = "_json_converter",
                                     !.flag_dict = r.flag_dict,
                                     !.called = Calls("openai", r.sent)]
    /\ UNCHANGED <<raw_images, processed_text, processed_entities,
                   processed_medical_data, run, ingested, retriever, faiss_index,
                   graphVars, updateVars, normalizeVars, serviceVars, graderVars, detectVars>>

\* pipeline.main_fn(build)
MainFn(build) ==
    /\ LET r == main_fn(build, pipeline, faiss_index)
       IN /\ retriever' = r.returned
          /\ faiss_index' = r.index_dir
          /\ log' = [NoLog EXCEPT !.op = IF build THEN "main_fn(build)" ELSE "main_fn"]
    /\ UNCHANGED <<fsVars, run, ingested, pipeline, graphVars, updateVars, normalizeVars, serviceVars, graderVars, detectVars>>

\* build_index(documents) on the retriever main_fn returned, with the
\* documents create_documents_from_json gives for the pipeline's data
BuildIndex ==
    /\ retriever.kind = "FAISSRetriever"
    /\ ~CreateDocumentsRaises(pipeline)
    /\ LET documents == create_documents_from_json(pipeline.data_dict, pipeline.data)
       IN IF BuildIndexRaises(documents)
          THEN /\ log' = [NoLog EXCEPT !.op = "build_index", !.raised = "ValueError"]
               /\ UNCHANGED <<retriever, faiss_index>>
          ELSE LET r == build_index(retriever, documents)
               IN /\ retriever' = r.returned
                  /\ faiss_index' = r.index_dir
                  /\ log' = [NoLog EXCEPT !.op = "build_index"]
    /\ UNCHANGED <<fsVars, run, ingested, pipeline, graphVars, updateVars, normalizeVars, serviceVars, graderVars, detectVars>>

\* load_index() on the retriever main_fn returned
LoadIndex ==
    /\ retriever.kind = "FAISSRetriever"
    /\ IF LoadIndexRaises(faiss_index)
       THEN /\ log' = [NoLog EXCEPT
                          !.op = "load_index",
                          !.raised = IF faiss_index.exists THEN "RuntimeError"
                                     ELSE "FileNotFoundError"]
            /\ UNCHANGED retriever
       ELSE /\ retriever' = load_index(retriever, faiss_index)
            /\ log' = [NoLog EXCEPT !.op = "load_index"]
    /\ UNCHANGED <<fsVars, run, ingested, pipeline, faiss_index, graphVars, updateVars, normalizeVars, serviceVars, graderVars, detectVars>>

\* retrieve(query) on the retriever main_fn returned: the index is loaded
\* first when db is None
Retrieve ==
    /\ retriever.kind = "FAISSRetriever"
    /\ IF ~retriever.db_loaded /\ LoadIndexRaises(faiss_index)
       THEN /\ log' = [NoLog EXCEPT
                          !.op = "retrieve",
                          !.raised = IF faiss_index.exists THEN "RuntimeError"
                                     ELSE "FileNotFoundError"]
            /\ UNCHANGED retriever
       ELSE LET loaded == IF retriever.db_loaded THEN retriever
                          ELSE load_index(retriever, faiss_index)
            IN /\ retriever' = loaded
               /\ \E results \in SearchResults(loaded.db, TOP_K) :
                      log' = [op |-> "retrieve", flag_dict |-> NoneObj, called |-> {},
                              written |-> {}, failed |-> {}, raised |-> "none",
                              results |-> results]
    /\ UNCHANGED <<fsVars, run, ingested, pipeline, faiss_index, graphVars, updateVars, normalizeVars, serviceVars, graderVars, detectVars>>

\* the structurer is run on its own before the retriever pipeline is first
\* used; from then on it runs as part of _json_converter
NextBuild ==
    \/ /\ pipeline = NewPipeline
       /\ retriever = NotReturned
       /\ \E data_path \in DataPaths : SummarizeData(data_path, LLMOutcomes)
    \/ JsonConverter
    \/ \E build \in BOOLEAN : MainFn(build)
    \/ BuildIndex
    \/ LoadIndex
    \/ Retrieve

SpecBuild == InitBuild /\ [][NextBuild]_vars

\* ------------------------------------------------------------------------
\* Startup of the API (Task3/main.py lifespan, Task3/graph.py create_graph)
\* ------------------------------------------------------------------------

MaxServed == 2

\* the index folder when the API starts: absent, made by an earlier
\* FAISSRetriever() without an index, or holding a saved index
StartupIndexDirs ==
    {NoIndexDir, IndexDirMade(NoIndexDir)}
        \cup {[exists |-> TRUE, saved |-> TRUE, docs |-> docs] :
                 docs \in (SUBSET {"d1", "d2"}) \ {{}}}

\* FAISSRetriever(): OpenAIEmbeddings(model = ...) finds no API key
RetrieverInitRaises(environ) == "OPENAI_API_KEY" \notin environ

\* create_graph(): AsyncMongoClient(None) is a client of localhost:27017
\* that connects on first use; AsyncMongoDBSaver indexes the client with
\* db_name and the database with checkpoint_collection_name, and a name
\* that is None is a TypeError
CreateGraphRaises(environ) ==
    "DB_NAME" \notin environ \/ "COLLECTION_NAME" \notin environ

\* lifespan up to its yield: FAISSRetriever(), load_index(), create_graph();
\* the first exception ends the startup
lifespan(environ, index_dir) ==
    IF RetrieverInitRaises(environ)
    THEN [raised |-> "OpenAIError", index_dir |-> index_dir]
    ELSE IF LoadIndexRaises(IndexDirMade(index_dir))
    THEN [raised |-> "RuntimeError", index_dir |-> IndexDirMade(index_dir)]
    ELSE IF CreateGraphRaises(environ)
    THEN [raised |-> "TypeError", index_dir |-> IndexDirMade(index_dir)]
    ELSE [raised |-> "none", index_dir |-> IndexDirMade(index_dir)]

InitStartup ==
    /\ InitGraph
    /\ InitUpdateCall
    /\ InitNormalizeCall
    /\ InitGraderCall
    /\ InitDetectCall
    /\ env \in SUBSET RequiredEnv
    /\ app = NotStarted
    /\ InitFiles
    /\ InitRun
    /\ pipeline = NewPipeline
    /\ retriever = NotReturned
    /\ faiss_index \in StartupIndexDirs

\* uvicorn enters the lifespan of the app
Lifespan ==
    /\ app.pc = "starting"
    /\ LET r == lifespan(env, faiss_index)
       IN /\ app' = [app EXCEPT !.pc = IF r.raised = "none" THEN "accepting"
                                        ELSE "failed",
                                 !.raised = r.raised]
          /\ faiss_index' = r.index_dir
    /\ UNCHANGED <<env, fsVars, run, ingested, log, pipeline, retriever,
                   graphVars, updateVars, normalizeVars, graderVars, detectVars>>

\* the status ask_query may answer with: 200, or 500 when graph.ainvoke
\* raised (the store behind the client, or an LLM call, is not reachable)
GenerateStatuses == {200, 500}

\* POST /generate on the running app
Generate ==
    /\ app.pc = "accepting"
    /\ app.served < MaxServed
    /\ \E status \in GenerateStatuses :
          app' = [app EXCEPT !.served = @ + 1, !.status = status]
    /\ UNCHANGED <<env, pipelineVars, graphVars, updateVars, normalizeVars, graderVars, detectVars>>

\* the lifespan after its yield
Shutdown ==
    /\ app.pc = "accepting"
    /\ app' = [app EXCEPT !.pc = "stopped"]
    /\ UNCHANGED <<env, pipelineVars, graphVars, updateVars, normalizeVars, graderVars, detectVars>>

NextStartup ==
    \/ Lifespan
    \/ Generate
    \/ Shutdown

SpecStartup == InitStartup /\ [][NextStartup]_vars

\* ------------------------------------------------------------------------
\* Properties of the graph
\* ------------------------------------------------------------------------

IsPrefix(p, q) == Len(p) <= Len(q) /\ SubSeq(q, 1, Len(p)) = p

Last(q) == q[Len(q)]

GeneratePath ==
    <<"query_rewriter", "doc_retriever", "doc_grader", "answer_generation">>

FallbackPath ==
    <<"query_rewriter", "doc_retriever", "doc_grader", "fallback_agent">>

OnAPath(q) == IsPrefix(q, GeneratePath) \/ IsPrefix(q, FallbackPath)

\* C1: the nodes an invocation has run, followed by the node it is at, are
\* always an initial part of query_rewriter, doc_retriever, doc_grader and
\* then one of answer_generation and fallback_agent (so no node runs twice
\* and none before its predecessor), and an invocation that has reached END
\* has run exactly one of these two sequences.
C1_GraphOrder ==
    \A s \in Slots :
        /\ OnAPath(inv[s].trace)
        /\ InFlight(s) => OnAPath(Append(inv[s].trace, inv[s].pc))
        /\ inv[s].pc = "END" => inv[s].trace \in {GeneratePath, FallbackPath}

C1_Witness ==
    /\ inv["r1"].pc = "END" /\ inv["r1"].trace = GeneratePath
    /\ inv["r2"].pc = "END" /\ inv["r2"].trace = FallbackPath

\* the invocation of handler s has just left doc_grader
Graded(s) ==
    /\ InFlight(s)
    /\ inv[s].trace # <<>>
    /\ Last(inv[s].trace) = "doc_grader"

\* C2: after doc_grader the invocation is at answer_generation if and only
\* if the grader LLM said yes for at least one retrieved document, which is
\* if and only if proceed_to_generate is true and documents is non-empty;
\* otherwise it is at fallback_agent.
C2_GraderGate ==
    \A s \in Slots :
        Graded(s) =>
            /\ inv[s].pc \in {"answer_generation", "fallback_agent"}
            /\ inv[s].pc = "answer_generation"
                   <=> \E i \in 1..Len(inv[s].scores) : inv[s].scores[i] \in YesScores
            /\ inv[s].pc = "answer_generation"
                   <=> /\ inv[s].state.proceed_to_generate
                       /\ inv[s].state.documents # <<>>

C2_Witness ==
    /\ Graded("r1") /\ inv["r1"].pc = "answer_generation"
    /\ Graded("r2") /\ inv["r2"].pc = "fallback_agent"
    /\ inv["r2"].scores # <<>>

\* the entry a turn leaves in the conversation
TurnEntry(turn) ==
    [question |-> Strip(turn.question), answer |-> Strip(turn.answer)]

\* the last min(n, MAX_CHATS) of the turns, the oldest at key 1
LastTurns(ts) ==
    LET n == Len(ts)
        m == IF n < MAX_CHATS THEN n ELSE MAX_CHATS
    IN [kind |-> "dict",
        items |-> [i \in 1..m |-> [k |-> i, v |-> TurnEntry(ts[n - m + i])]]]

\* C3: on a thread whose invocations never overlapped, after n >= 1 grounded
\* turns the committed conversation holds the last min(n, 3) of them, the
\* oldest at key 1 and the n-th at the largest key.
C3_ConversationHoldsLastTurns ==
    \A t \in Threads :
        (~overlapped[t] /\ turns[t] # <<>>) =>
            checkpoint[t].conversation = LastTurns(turns[t])

\* the invocation of handler s has ended in fallback_agent
FellBack(s) == inv[s].pc = "END" /\ Last(inv[s].trace) = "fallback_agent"

\* C4: a turn routed to fallback_agent is answered with the fixed apology,
\* and the conversation it ends with is the conversation it started with (a
\* thread that had none yet ends with the empty one).
C4_FallbackKeepsConversation ==
    \A s \in Slots :
        FellBack(s) =>
            /\ inv[s].response = [status |-> 200, body |-> FallbackMessage]
            /\ inv[s].state.conversation = inv[s].start.conversation

C4_Witness ==
    \E s \in Slots :
        /\ FellBack(s)
        /\ inv[s].start.conversation.items # <<>>
        /\ checkpoint[inv[s].thread_id].generated_answer = FallbackMessage

\* a conversation with the keys 1..len in this order and at most MAX_CHATS
WellFormedChats(c) ==
    /\ IsDict(c)
    /\ DictKeys(c) = [i \in 1..Len(c.items) |-> i]
    /\ Len(c.items) <= MAX_CHATS

\* C7: the conversation of every AgentState, committed or held by an
\* invocation, has the keys 1..len and at most MAX_CHATS entries.
C7_ConversationWellFormed ==
    /\ \A t \in Threads : WellFormedChats(checkpoint[t].conversation)
    /\ \A s \in Slots : /\ WellFormedChats(inv[s].state.conversation)
                        /\ WellFormedChats(inv[s].start.conversation)

C7_Witness ==
    \E s \in Slots :
        /\ InFlight(s)
        /\ inv[s].start.conversation.items # <<>>
        /\ inv[s].state.conversation.items # <<>>

\* C8: when the LLM call of query_rewriter fails the node returns all the
\* same, with rephrased_question equal to user_query and tool_flag false, and
\* the invocation goes on to doc_retriever; no invocation fails in
\* query_rewriter.
C8_RewriterDegrades ==
    \A s \in Slots :
        /\ (inv[s].rewriter_failed /\ inv[s].trace = <<"query_rewriter">>) =>
              /\ inv[s].pc = "doc_retriever"
              /\ inv[s].state.rephrased_question = inv[s].state.user_query
              /\ inv[s].state.tool_flag = FALSE
        /\ inv[s].pc = "failed" =>
              /\ inv[s].trace # <<>>
              /\ Last(inv[s].trace) # "query_rewriter"

C8_Witness ==
    \E s \in Slots :
        /\ inv[s].rewriter_failed
        /\ inv[s].pc = "doc_retriever"
        /\ ToolQuery(inv[s].state.user_query)

\* the LLM call of doc_grader or answer_generation fails in this step
LLMFailureStep(s) ==
    /\ inv[s].pc \in {"doc_grader", "answer_generation"}
    /\ inv'[s].pc = "failed"

\* C9 as stated: when the LLM call fails in doc_grader or answer_generation
\* the request is answered with status 500 and a detail, and the state
\* committed for the thread is the one from before the request.
C9_FailureLeavesStateOfBeforeRequest ==
    [][\A s \in Slots :
           LLMFailureStep(s) =>
               /\ inv'[s].response = ErrorResponse
               /\ checkpoint'[inv[s].thread_id] = inv[s].start]_vars

\* C9 as amended: when the LLM call fails in doc_grader or answer_generation
\* the request is answered with status 500 and a detail, the failing node
\* commits nothing, no later node of the invocation runs, and the
\* conversation the invocation has committed is the one it read when the
\* request started (the other fields written by the nodes that completed
\* before the failure stay committed).
C9_FailureKeepsConversation ==
    [][\A s \in Slots :
           /\ LLMFailureStep(s) =>
                 /\ inv'[s].response = ErrorResponse
                 /\ checkpoint' = checkpoint
                 /\ inv'[s].trace = Append(inv[s].trace, inv[s].pc)
                 /\ inv[s].state.conversation = inv[s].start.conversation
                 /\ inv'[s].state.conversation = inv[s].start.conversation
           /\ inv[s].pc = "failed" =>
                 \/ inv'[s] = inv[s]
                 \/ inv'[s].trace = <<>> /\ inv'[s].pc = "query_rewriter"]_vars

C9_Witness ==
    \E s \in Slots :
        /\ inv[s].pc = "failed"
        /\ Last(inv[s].trace) = "answer_generation"
        /\ inv[s].response.status = 500
        /\ inv[s].start.conversation.items # <<>>
        /\ checkpoint[inv[s].thread_id].documents # <<>>

\* the entries of a conversation
EntriesOf(c) == {c.items[i].v : i \in 1..Len(c.items)}

\* the entries the grounded turns of conversation uid leave
OwnEntries(uid) == {TurnEntry(turns[uid][i]) : i \in 1..Len(turns[uid])}

\* entry e is about a question written in the letter of conversation uid
WrittenIn(e, uid) == \E i \in 1..Len(e.question) : e.question[i] = Letter(uid)

\* C10: under any interleaving, the conversation committed for a thread and
\* the conversation an invocation reads and writes hold only entries of the
\* grounded turns submitted with that ThreadId.
C10_ThreadIsolation ==
    /\ \A t \in Threads :
          /\ EntriesOf(checkpoint[t].conversation) \subseteq OwnEntries(t)
          /\ \A e \in EntriesOf(checkpoint[t].conversation) : WrittenIn(e, t)
    /\ \A s \in Slots :
          inv[s].pc # "idle" =>
              /\ EntriesOf(inv[s].start.conversation) \subseteq OwnEntries(inv[s].unique_id)
              /\ EntriesOf(inv[s].state.conversation) \subseteq OwnEntries(inv[s].unique_id)

C10_Witness ==
    /\ inv["r1"].pc = "END" /\ inv["r2"].pc = "END"
    /\ inv["r1"].unique_id # inv["r2"].unique_id
    /\ inv["r1"].trace = GeneratePath /\ inv["r2"].trace = GeneratePath
    /\ \A t \in Threads : checkpoint[t].conversation.items # <<>>

\* C11: requests with the same ThreadId are serialized: at no time are two
\* graph invocations of one ThreadId both between START and END.
C11_SameThreadSerialized ==
    \A s \in Slots : \A o \in Slots \ {s} :
        (InFlight(s) /\ InFlight(o)) => inv[s].thread_id # inv[o].thread_id

\* ------------------------------------------------------------------------
\* Properties of update_recent_chats
\* ------------------------------------------------------------------------

RECURSIVE IsSubseq(_, _)
\* a is b with some of its elements left out
IsSubseq(a, b) ==
    IF a = <<>> THEN TRUE
    ELSE IF b = <<>> THEN FALSE
    ELSE IF Head(a) = Head(b) THEN IsSubseq(Tail(a), Tail(b))
    ELSE IsSubseq(a, Tail(b))

\* the entry the call appends
NewEntry == [question |-> Strip(u_in.latest_question), answer |-> Strip(u_in.answer)]

\* the previous entries followed by the new entry
Appended == Append(DictValues(u_in.recent_chats), NewEntry)

\* keys exactly 1..len, len <= max_chats, the new entry at the largest key,
\* the kept entries in their insertion order
WindowOf(out, max_chats) ==
    /\ IsDict(out)
    /\ DictKeys(out) = [i \in 1..Len(out.items) |-> i]
    /\ Len(out.items) <= max_chats
    /\ Len(out.items) >= 1
    /\ out.items[Len(out.items)] = [k |-> Len(out.items), v |-> NewEntry]
    /\ IsSubseq(DictValues(out), Appended)

\* C5 as stated: for every mapping recent_chats and every max_chats the
\* result has the keys 1..len, len <= max_chats, the new entry at its largest
\* key and the kept entries in insertion order.
C5_WindowForEveryMax ==
    (u_called /\ IsDict(u_in.recent_chats)) => WindowOf(u_out, u_in.max_chats)

\* C5 as amended: the same for every max_chats >= 1.
C5_WindowForPositiveMax ==
    (u_called /\ IsDict(u_in.recent_chats) /\ u_in.max_chats >= 1)
        => WindowOf(u_out, u_in.max_chats)

C5_Witness ==
    /\ u_called
    /\ IsDict(u_in.recent_chats)
    /\ u_in.max_chats >= 1
    /\ Len(u_in.recent_chats.items) >= u_in.max_chats
    /\ DictKeys(u_in.recent_chats) # [i \in 1..Len(u_in.recent_chats.items) |-> i]
    /\ u_in.latest_question # Strip(u_in.latest_question)
    /\ Len(u_out.items) = u_in.max_chats

\* the argument is a RecentChats: a mapping with the keys 1..len in order
IsRecentChats(c) == IsDict(c) /\ DictKeys(c) = [i \in 1..Len(c.items) |-> i]

\* C6: with max_chats = 3, update keeps exactly the last 3 entries of the
\* previous entries followed by the new one; from a RecentChats of length 3
\* the result has length 3 and the keys 1, 2, 3, the previous entries 2 and 3
\* are at the keys 1 and 2 (the previous entry 1 is gone) and the new entry is
\* at key 3.
C6_EvictsOldest ==
    (u_called /\ IsRecentChats(u_in.recent_chats) /\ u_in.max_chats = MAX_CHATS) =>
        LET n == Len(Appended)
            m == IF n < MAX_CHATS THEN n ELSE MAX_CHATS
        IN /\ DictValues(u_out) = SubSeq(Appended, n - m + 1, n)
           /\ Len(u_in.recent_chats.items) = MAX_CHATS =>
                 /\ Len(u_out.items) = MAX_CHATS
                 /\ DictKeys(u_out) = <<1, 2, 3>>
                 /\ DictGet(u_out, 1) = DictGet(u_in.recent_chats, 2)
                 /\ DictGet(u_out, 2) = DictGet(u_in.recent_chats, 3)
                 /\ DictGet(u_out, 3) = NewEntry

C6_Witness ==
    /\ u_called
    /\ IsRecentChats(u_in.recent_chats)
    /\ u_in.max_chats = MAX_CHATS
    /\ Len(u_in.recent_chats.items) = MAX_CHATS
    /\ DictGet(u_in.recent_chats, 1) # DictGet(u_in.recent_chats, 2)
    /\ DictGet(u_out, 1) # DictGet(u_in.recent_chats, 1)

\* ------------------------------------------------------------------------
\* Properties of the ingestion pipeline
\* ------------------------------------------------------------------------

\* the keys of a JSON file, none when the file does not exist
KeysOf(file) == IF file.exists THEN DOMAIN file.data ELSE {}

\* the step is a stage of main of Task1 or of main of Task2
StageStep ==
    \/ log'.op \in {"extract_data", "extract_info", "process_comprehend_results"}
    \/ log'.op = "summarize_data" /\ log'.data_path = DefaultDataPath

\* C12: for the OCR and the entity stage the work-set diff over the source
\* keys S and the downstream keys D returns to_process = S \ D and
\* already_processed = S \cap D, with D empty when the downstream file does
\* not exist; the entity stage also returns exactly the upstream texts of
\* to_process.
C12_WorkSetDiff ==
    [][/\ (run.pc = "idle" /\ log'.op = "extract_data" /\ log'.raised = "none") =>
              LET S == ImagesOf(raw_images)
                  D == KeysOf(processed_text)
              IN /\ log'.flag_dict.to_process = S \ D
                 /\ log'.flag_dict.already_processed = S \cap D
       /\ (run.pc = "extract_info" /\ log'.op = "extract_info" /\ processed_text.exists) =>
              LET S == KeysOf(processed_text)
                  D == KeysOf(processed_entities)
              IN /\ log'.flag_dict.to_analyze = S \ D
                 /\ log'.flag_dict.already_analyzed = S \cap D
                 /\ DOMAIN log'.flag_dict.texts_to_analyze = S \ D
                 /\ \A k \in S \ D :
                       log'.flag_dict.texts_to_analyze[k] = processed_text.data[k]
      ]_vars

\* the entity stage has found documents to analyze and documents analyzed
\* before, in a folder that also holds a file that is no image
C12_Witness ==
    /\ log.op = "extract_info"
    /\ log.flag_dict.to_analyze # {}
    /\ log.flag_dict.already_analyzed # {}
    /\ N_TXT \in listdir(raw_images)
    /\ processed_entities.exists

\* C13: at the OCR, entity and structurer stage a missing upstream source
\* (raw image folder, processed_text.json, folder of the summary tables)
\* gives empty to_process and already_processed and the stage ends without
\* raising.
C13_MissingUpstreamIsNothingToDo ==
    [][/\ (run.pc = "idle" /\ log'.op = "extract_data" /\ ~raw_images.exists) =>
              /\ log'.raised = "none"
              /\ log'.flag_dict = [to_process |-> {}, already_processed |-> {}]
       /\ (run.pc = "extract_info" /\ log'.op = "extract_info" /\ ~processed_text.exists) =>
              /\ log'.raised = "none"
              /\ log'.flag_dict = [to_analyze |-> {}, already_analyzed |-> {}]
       /\ (run.pc = "idle" /\ log'.op = "summarize_data"
             /\ ~processed_medical_data.exists) =>
              /\ log'.raised = "none"
              /\ log'.flag_dict = [to_summarize |-> {}, already_summarized |-> {}]
      ]_vars

\* an ingest of the images now in the raw folder has completed: main of
\* Task1 and then main of Task2 ran without a failing collaborator call
CompletedIngest ==
    /\ raw_images.exists
    /\ ingested.task1 = [ok |-> TRUE, images |-> ImagesOf(raw_images)]
    /\ ingested.task2 = [ok |-> TRUE, images |-> ImagesOf(raw_images)]

\* the work set a stage has found
WorkSet(l) ==
    CASE l.op = "extract_data" -> l.flag_dict.to_process
      [] l.op = "extract_info" -> l.flag_dict.to_analyze
      [] l.op = "process_comprehend_results" -> {w.key : w \in l.written}
      [] l.op = "summarize_data" -> l.flag_dict.to_summarize

\* C14: a rerun right after a completed ingest, with no new image, finds
\* an empty work set at every stage, calls no collaborator and leaves every
\* persisted artifact unchanged.
C14_RerunIsNoOp ==
    [][(CompletedIngest /\ StageStep) =>
           /\ WorkSet(log') = {}
           /\ log'.called = {}
           /\ log'.written = {}
           /\ UNCHANGED fsVars
      ]_vars

\* what the pipeline keeps for document d: its entries, its table and its
\* structured record
ArtifactsOf(d) == {d, d \o SUMMARY_CSV, Stem(d \o SUMMARY_CSV), Stem(d \o SUMMARY_CSV) \o JSON}

\* C15: after a completed ingest of a.png and b.png, with c.jpg added, a
\* rerun handles only c.jpg at every stage: nothing of a.png or b.png is in
\* a work set, sent to a collaborator or written.
C15_RerunHandlesOnlyNewImage ==
    [][(/\ ingested.task2 = [ok |-> TRUE, images |-> {A_PNG, B_PNG}]
        /\ ImagesOf(raw_images) = {A_PNG, B_PNG, C_JPG}
        /\ StageStep) =>
           /\ WorkSet(log') \subseteq ArtifactsOf(C_JPG)
           /\ \A c \in log'.called : c.doc \in ArtifactsOf(C_JPG)
           /\ \A w \in log'.written : w.key \in ArtifactsOf(C_JPG)
      ]_vars

\* C16: a cold ingest of a.png and b.png in which every collaborator call
\* succeeds ends with both keys in processed_text.json and in
\* processed_entities.json, one summary table per image and one structured
\* record per image.
C16_ColdIngest ==
    (/\ CompletedIngest
     /\ ImagesOf(raw_images) = {A_PNG, B_PNG}
     /\ run.pc = "idle") =>
        /\ KeysOf(processed_text) = {A_PNG, B_PNG}
        /\ KeysOf(processed_entities) = {A_PNG, B_PNG}
        /\ {f \in listdir(processed_medical_data) : EndsWith(f, SUMMARY_CSV)}
               = {A_PNG \o SUMMARY_CSV, B_PNG \o SUMMARY_CSV}
        /\ Cardinality({f \in listdir(structured_json) : EndsWith(f, JSON)}) = 2

\* C18: at the structurer stage a summary whose structured file exists is
\* in already_summarized, not in to_summarize, and is not sent to the LLM
\* again.
C18_StructuredFileIsMarker ==
    [][(run.pc = "idle" /\ log'.op = "summarize_data") =>
           \A f \in listdir(processed_medical_data) :
               (EndsWith(f, CSV) /\ (Stem(f) \o JSON) \in listdir(structured_json)) =>
                   /\ Stem(f) \in log'.flag_dict.already_summarized
                   /\ Stem(f) \notin log'.flag_dict.to_summarize
                   /\ \A c \in log'.called : c.doc # f
      ]_vars

\* C19: after any runs, failing calls included, every key of
\* processed_entities.json is a key of processed_text.json and every
\* summary table is the table of a key of processed_entities.json.
C19_StageContainment ==
    /\ KeysOf(processed_entities) \subseteq KeysOf(processed_text)
    /\ \A f \in listdir(processed_medical_data) :
          \E k \in KeysOf(processed_entities) : f = k \o SUMMARY_CSV

\* after a failing medical-NLP call: fewer entity entries than texts, and
\* the tables of the entries there are
C19_Witness ==
    /\ KeysOf(processed_entities) # {}
    /\ KeysOf(processed_entities) # KeysOf(processed_text)
    /\ Cardinality(listdir(processed_medical_data)) = Cardinality(KeysOf(processed_entities))
    /\ run.pc = "idle"

\* the entries of a JSON file are kept as they are by the step
EntriesKept(file, after) ==
    \A k \in KeysOf(file) : k \in KeysOf(after) /\ after.data[k] = file.data[k]

\* C20: over the runs of main of Task1 and main of Task2 an entry of
\* processed_text.json or processed_entities.json is never removed or
\* overwritten, and a summary table or a structured record that exists is
\* not written again (the entry it is made from never changes).
C20_WrittenOnce ==
    [][StageStep =>
           /\ EntriesKept(processed_text, processed_text')
           /\ EntriesKept(processed_entities, processed_entities')
           /\ \A w \in log'.written :
                 /\ w.artifact = "processed_medical_data" =>
                        w.key \notin listdir(processed_medical_data)
                 /\ w.artifact = "structured_json" =>
                        w.key \notin listdir(structured_json)
      ]_vars

\* C21: at the OCR stage an image of to_process that fails, because its
\* bytes cannot be read or because the Textract call raises, is skipped: the
\* stage does not raise, and every other image of to_process is sent to
\* Textract and has its text in processed_text.json afterwards.
C21_OcrFailureIsSkipped ==
    [][(/\ run.pc = "idle"
        /\ log'.op = "extract_data"
        /\ raw_images.exists
        /\ log'.flag_dict.to_process # {}) =>
           /\ log'.raised = "none"
           /\ \A img \in log'.flag_dict.to_process \ log'.failed :
                  /\ [service |-> "textract", doc |-> img] \in log'.called
                  /\ img \in KeysOf(processed_text')
      ]_vars

\* C22: when the medical-NLP call fails for some documents of a run, the
\* entities of the documents that succeeded are in processed_entities.json
\* afterwards, the entries of earlier runs are as they were, and the
\* to_analyze the entity stage finds next (the texts being the same) is
\* exactly the set of the documents that failed.
C22_PartialEntityFailure ==
    [][(run.pc = "extract_info" /\ log'.op = "extract_info" /\ log'.failed # {}) =>
           /\ EntriesKept(processed_entities, processed_entities')
           /\ KeysOf(processed_entities') =
                  KeysOf(processed_entities) \cup ({c.doc : c \in log'.called} \ log'.failed)
           /\ check_existing_comprehend(processed_text', processed_entities').to_analyze
                  = log'.failed
      ]_vars

\* a run in which one document failed and another succeeded, next to an
\* entry of an earlier run
C22_Witness ==
    /\ log.op = "extract_info"
    /\ log.failed # {}
    /\ {c.doc : c \in log.called} \ log.failed # {}
    /\ KeysOf(processed_entities) \ {c.doc : c \in log.called} # {}
    /\ check_existing_comprehend(processed_text, processed_entities).to_analyze = log.failed

\* the step is a run of the structurer
StructurerStep == run.pc = "idle" /\ log'.op = "summarize_data"

\* the record the step has written under name
WrittenRecord(name) == structured_json'.files[name]

\* C23: at the structurer stage a document whose LLM call or schema
\* validation fails is skipped: no file is written for it, the stage does
\* not raise, and every other document sent to the LLM is structured and
\* saved in its own file.
C23_StructurerFailureIsSkipped ==
    [][(StructurerStep /\ log'.failed # {}) =>
           /\ log'.raised = "none"
           /\ \A c \in log'.called :
                  LET name == structured_path(c.doc)
                  IN IF c.doc \in log'.failed
                     THEN /\ [artifact |-> "structured_json", key |-> name] \notin log'.written
                          /\ name \in listdir(structured_json') <=>
                                 name \in listdir(structured_json)
                          /\ name \in listdir(structured_json) =>
                                 WrittenRecord(name) = structured_json.files[name]
                     ELSE /\ [artifact |-> "structured_json", key |-> name] \in log'.written
                          /\ name \in listdir(structured_json')
                          /\ WrittenRecord(name) = MedicalNotes(log'.answers[c.doc].response)
      ]_vars

\* one document failed, the other was structured and saved
C23_Witness ==
    /\ log.op = "summarize_data"
    /\ log.failed # {}
    /\ \E c \in log.called :
          /\ c.doc \notin log.failed
          /\ structured_path(c.doc) \in listdir(structured_json)
    /\ \E c \in log.called :
          /\ c.doc \in log.failed
          /\ structured_path(c.doc) \notin listdir(structured_json)

\* the characters of the values of the LLM
FieldChars == {"P", "D", "T", "F", "N"}

\* C24: every record the structurer stage saves has exactly the keys
\* patient, diagnosis, treatment and follow_up, all with string values, and
\* nothing is saved for an LLM output with a missing field.
C24_RecordShape ==
    [][StructurerStep =>
           /\ \A w \in log'.written :
                  /\ DOMAIN WrittenRecord(w.key) = Fields
                  /\ \A k \in Fields : WrittenRecord(w.key)[k] \in Seq(FieldChars)
           /\ \A d \in DOMAIN log'.answers :
                  (log'.answers[d].ok /\ ~(Fields \subseteq DOMAIN log'.answers[d].response)) =>
                      /\ d \in log'.failed
                      /\ \A w \in log'.written : w.key # structured_path(d)
      ]_vars

\* an output with a field beyond the four was saved as a record of four
\* fields, and an output with a missing field was not saved
C24_Witness ==
    /\ log.op = "summarize_data"
    /\ \E d \in DOMAIN log.answers :
          /\ log.answers[d].ok
          /\ ~(DOMAIN log.answers[d].response \subseteq Fields)
          /\ structured_path(d) \in listdir(structured_json)
    /\ \E d \in DOMAIN log.answers :
          /\ log.answers[d].ok
          /\ ~(Fields \subseteq DOMAIN log.answers[d].response)
          /\ structured_path(d) \notin listdir(structured_json)

\* C25: every record the structurer stage saves has its four fields
\* non-empty, and an LLM output with a field beyond the four is a failure
\* for its document: nothing is saved for it.
C25_NonEmptyFieldsNoExtras ==
    [][StructurerStep =>
           /\ \A w \in log'.written :
                  \A k \in Fields : WrittenRecord(w.key)[k] # <<>>
           /\ \A d \in DOMAIN log'.answers :
                  (log'.answers[d].ok /\ ~(DOMAIN log'.answers[d].response \subseteq Fields)) =>
                      /\ d \in log'.failed
                      /\ \A w \in log'.written : w.key # structured_path(d)
      ]_vars

\* ------------------------------------------------------------------------
\* Properties of the retriever pipeline
\* ------------------------------------------------------------------------

\* C17: after main_fn has run in build mode over N structured records, an
\* index of exactly N documents is saved in the index folder, so that a
\* later load_index succeeds.
C17_BuildModePersistsIndex ==
    [][(/\ log'.op = "main_fn(build)"
        /\ pipeline.data_dict.kind = "json"
        /\ DOMAIN pipeline.data_dict.data # {}) =>
           /\ faiss_index'.saved
           /\ Cardinality(faiss_index'.docs) = Cardinality(DOMAIN pipeline.data_dict.data)
           /\ ~LoadIndexRaises(faiss_index')
      ]_vars

\* the sentence of a record: its fields in the order patient, diagnosis,
\* treatment, follow_up, "Not given" for an absent patient or diagnosis and
\* "Not Given" for an absent treatment or follow_up
Sentence(v) ==
    NAME_IS \o (IF "patient" \in DOMAIN v THEN v.patient ELSE NOT_GIVEN)
    \o DIAGNOSED_IS \o (IF "diagnosis" \in DOMAIN v THEN v.diagnosis ELSE NOT_GIVEN)
    \o TREATMENT_IS
    \o (IF "treatment" \in DOMAIN v THEN v.treatment ELSE NOT_GIVEN_CAPITAL)
    \o FOLLOWUP_IS
    \o (IF "follow_up" \in DOMAIN v THEN v.follow_up ELSE NOT_GIVEN_CAPITAL)

\* C26: for every structured record _json_converter has read, the text it
\* keeps and the page_content of the document made from it are the sentence
\* of the record; every record, a field absent or not, has its text and its
\* document.
C26_Rendering ==
    pipeline.data_dict.kind = "json" =>
        /\ pipeline.data.kind = "json"
        /\ DOMAIN pipeline.data.data = DOMAIN pipeline.data_dict.data
        /\ \A k \in DOMAIN pipeline.data_dict.data :
              pipeline.data.data[k] = Sentence(pipeline.data_dict.data[k])
        /\ ~CreateDocumentsRaises(pipeline)
        /\ LET documents == create_documents_from_json(pipeline.data_dict, pipeline.data)
           IN /\ Cardinality(documents) = Cardinality(DOMAIN pipeline.data_dict.data)
              /\ \A doc \in documents :
                    doc.page_content =
                        Sentence(pipeline.data_dict.data[doc.metadata.source_file])

\* a record without patient and without treatment has been rendered
C26_Witness ==
    /\ pipeline.data_dict.kind = "json"
    /\ \E k \in DOMAIN pipeline.data_dict.data :
          /\ DOMAIN pipeline.data_dict.data[k] = {"diagnosis", "follow_up"}
          /\ pipeline.data.data[k] =
                 NAME_IS \o NOT_GIVEN \o DIAGNOSED_IS \o <<"v">>
                 \o TREATMENT_IS \o NOT_GIVEN_CAPITAL \o FOLLOWUP_IS \o <<"v">>

\* C27: retrieve on a retriever whose index is not loaded loads the index
\* and then searches it; when no index has been built it fails with the
\* FileNotFoundError of load_index.
C27_RetrieveLoadsOrIndexAbsent ==
    [][(log'.op = "retrieve" /\ ~retriever.db_loaded) =>
           IF faiss_index.saved
           THEN /\ log'.raised = "none"
                /\ retriever'.db_loaded
                /\ retriever'.db = faiss_index.docs
                /\ log'.results \subseteq faiss_index.docs
           ELSE log'.raised = "FileNotFoundError"
      ]_vars

\* ------------------------------------------------------------------------
\* Properties of summarize_attributes
\* ------------------------------------------------------------------------

\* C28: a flattened Attributes string that summarize_attributes produced,
\* passed to summarize_attributes again, comes back as the same string
C28_FlattenRoundTrip ==
    (a_called /\ a_in.kind = "str" /\ a_in.value \in Flattened) => a_out = a_in.value

\* ------------------------------------------------------------------------
\* Properties of the graph: tool_flag
\* ------------------------------------------------------------------------

\* the state with the other value of tool_flag
FlagFlipped(state) == [state EXCEPT !.tool_flag = ~@]

\* the two states agree on everything but tool_flag
SameApartFromToolFlag(a, b) ==
    [a EXCEPT !.tool_flag = FALSE] = [b EXCEPT !.tool_flag = FALSE]

\* C30: the route does not depend on tool_flag. At every node an invocation
\* is at, the node run on the state with the other tool_flag (for the
\* rewriter: with the other tool_flag in the LLM's answer) gives the same
\* state apart from tool_flag, the same next node and the same response, so
\* two invocations that differ only in tool_flag visit the same nodes in the
\* same order and end in the same state apart from tool_flag
C30_RouteIgnoresToolFlag ==
    \A s \in Slots :
        LET state == inv[s].state
            other == FlagFlipped(state)
        IN /\ inv[s].pc = "query_rewriter" =>
                  \A response \in RewriterResponses(state.user_query) :
                      /\ SameApartFromToolFlag(
                             query_rewriter(state, response),
                             query_rewriter(state, [response EXCEPT !.tool_flag = ~@]))
                      /\ query_rewriter(other, response) = query_rewriter(state, response)
           /\ inv[s].pc = "doc_retriever" =>
                  \A results \in RetrieveResults :
                      SameApartFromToolFlag(doc_retriever(state, results),
                                            doc_retriever(other, results))
           /\ inv[s].pc = "doc_grader" =>
                  \A scores \in SeqsOfLen(Scores, Len(state.documents)) :
                      /\ SameApartFromToolFlag(doc_grader(state, scores),
                                               doc_grader(other, scores))
                      /\ ConditionalTarget(no_relevant_docs(doc_grader(state, scores)))
                             = ConditionalTarget(no_relevant_docs(doc_grader(other, scores)))
           /\ inv[s].pc = "answer_generation" =>
                  \A answer \in Answers :
                      /\ SameApartFromToolFlag(answer_generation(state, answer),
                                               answer_generation(other, answer))
                      /\ OkResponse(answer_generation(state, answer))
                             = OkResponse(answer_generation(other, answer))
           /\ inv[s].pc = "fallback_agent" =>
                  /\ SameApartFromToolFlag(fallback_agent(state), fallback_agent(other))
                  /\ OkResponse(fallback_agent(state)) = OkResponse(fallback_agent(other))

\* two invocations have ended, one whose rewriter set tool_flag and one
\* whose rewriter did not, after the same nodes in the same order
C30_Witness ==
    /\ inv["r1"].pc = "END" /\ inv["r2"].pc = "END"
    /\ inv["r1"].thread_id # inv["r2"].thread_id
    /\ checkpoint[inv["r1"].thread_id].tool_flag
    /\ ~checkpoint[inv["r2"].thread_id].tool_flag
    /\ ~inv["r2"].rewriter_failed
    /\ inv["r1"].trace = inv["r2"].trace
    /\ inv["r1"].trace =
           <<"query_rewriter", "doc_retriever", "doc_grader", "answer_generation">>

\* ------------------------------------------------------------------------
\* Properties of the startup of the API
\* ------------------------------------------------------------------------

\* C29: when a required environment value is missing the startup fails:
\* once the lifespan has run with a value missing the app has failed, and it
\* is never accepting requests
C29_MissingEnvFailsStartup ==
    (app.pc # "starting" /\ ~(RequiredEnv \subseteq env)) => app.pc = "failed"

\* ------------------------------------------------------------------------
\* Properties of the stages, continued
\* ------------------------------------------------------------------------

\* C31: extract_data returns a dictionary from file name to text in every
\* case: whenever main of Task1 holds what extract_data returned, it is a
\* dictionary
C31_ExtractDataReturnsDict ==
    run.pc = "extract_info" => run.data_dict.kind = "json"

\* ------------------------------------------------------------------------
\* Properties of the nodes
\* ------------------------------------------------------------------------

\* C32: before the LLM call query_rewriter has set rephrased_question to
\* None, tool_flag to False and generated_answer to None, has set
\* conversation to {} only when the state had none, and has left an existing
\* conversation, user_query and every other key as they were; what it
\* returns keeps conversation, user_query and generated_answer from there
C32_RewriterInitFrame ==
    \A s \in Slots :
        inv[s].pc = "query_rewriter" =>
            LET state == inv[s].state
                before == RewriterInit(state)
            IN /\ before.keys = state.keys \cup {"rephrased_question", "conversation",
                                                 "tool_flag", "generated_answer"}
               /\ before.rephrased_question = PyNone
               /\ before.tool_flag = FALSE
               /\ before.generated_answer = PyNone
               /\ before.conversation = IF "conversation" \in state.keys
                                        THEN state.conversation ELSE EmptyDict
               /\ before.user_query = state.user_query
               /\ before.documents = state.documents
               /\ before.proceed_to_generate = state.proceed_to_generate
               /\ \A response \in RewriterResponses(state.user_query) :
                      LET after == query_rewriter(state, response)
                      IN /\ after.conversation = before.conversation
                         /\ after.user_query = state.user_query
                         /\ after.generated_answer = PyNone

\* query_rewriter is about to run on the state of a thread whose earlier
\* turn left a conversation, an answer and a set tool_flag
C32_Witness ==
    \E s \in Slots :
        /\ inv[s].pc = "query_rewriter"
        /\ "conversation" \in inv[s].state.keys
        /\ inv[s].state.conversation.items # <<>>
        /\ inv[s].state.generated_answer # PyNone
        /\ inv[s].state.tool_flag

\* the grades that equal "yes" once trimmed and lower-cased
YesGrades == {<<" ", "Y", "e", "s">>, <<"Y", "E", "S", " ">>}

\* the positions of the documents graded yes
YesPositions(scores) == {i \in 1..Len(scores) : scores[i] \in YesGrades}

\* the k-th smallest of a set of positions
Kth(positions, k) ==
    CHOOSE i \in positions : Cardinality({j \in positions : j < i}) = k - 1

\* C33: doc_grader makes one LLM call per retrieved document and replaces
\* documents by exactly the documents graded yes (after trimming and
\* lower-casing), in their retrieved order; proceed_to_generate is true iff
\* that list is non-empty; with no retrieved document there is no LLM call
\* and proceed_to_generate is false
C33_GraderRetainsYes ==
    g_called =>
        LET documents == g_in.state.documents
            yes == YesPositions(g_in.scores)
            kept == g_out.state.documents
        IN /\ g_out.calls = Len(documents)
           /\ Len(kept) = Cardinality(yes)
           /\ \A k \in 1..Len(kept) : kept[k] = documents[Kth(yes, k)]
           /\ g_out.state.proceed_to_generate <=> kept # <<>>
           /\ {"documents", "proceed_to_generate"} \subseteq g_out.state.keys
           /\ documents = <<>> => (g_out.calls = 0 /\ ~g_out.state.proceed_to_generate)

\* doc_grader has kept the second of two different documents and dropped
\* the first, on a state whose proceed_to_generate was true before
C33_Witness ==
    /\ g_called
    /\ g_in.state.documents = <<"d1", "d2">>
    /\ g_in.state.proceed_to_generate
    /\ g_in.scores[1] \notin YesGrades
    /\ g_out.state.documents = <<"d2">>
    /\ g_out.calls = 2

\* the input without its array: the first element of a non-empty array
Unwrapped(value) ==
    IF value.kind = "ndarray"
    THEN (IF value.items = <<>> THEN NoneObj ELSE value.items[1])
    ELSE value

\* the input is a list, or text that is the repr of a list
IsListLike(value) ==
    \/ value.kind = "list"
    \/ value.kind = "str" /\ \E attrs \in AttrLists : Repr(attrs) = value.value

\* the list a list-like input stands for
ListOf(value) ==
    IF value.kind = "list" THEN value.items
    ELSE CHOOSE attrs \in AttrLists : Repr(attrs) = value.value

\* the positions of the mappings with a non-empty Type and a non-empty Text
Qualifying(attrs) ==
    {i \in 1..Len(attrs) :
        /\ {"Type", "Text"} \subseteq DOMAIN attrs[i]
        /\ attrs[i].Type # <<>>
        /\ attrs[i].Text # <<>>}

C35_DetectOnlyToProcess ==
    d_called =>
        /\ d_out.called \subseteq d_in.to_process
        /\ DOMAIN d_out.entity_dict \subseteq d_in.to_process
        /\ KeysOf(d_out.save_path) \subseteq d_in.to_process
        /\ d_in.to_process = {} => d_out.called = {}

\* the folder the summary tables are written to, given as data_path
NotesDataPath == "data/processed_medical_data"

\* C36: when the structurer turns the summary tables into notes, a table
\* that cannot be read or rendered affects only its document: the note of
\* every other table of the folder is still produced and sent to the LLM
C36_TableFailureIsIsolated ==
    [][(StructurerStep /\ log'.data_path = NotesDataPath
          /\ log'.flag_dict.to_summarize # {}) =>
           \A f \in listdir(processed_medical_data) :
               (EndsWith(Lower(f), CSV) /\ ~ReadCsvRaises(processed_medical_data.files[f]))
                   => [service |-> "openai", doc |-> f] \in log'.called
      ]_vars

\* C37: across the runs of the pipeline Textract is never called for an
\* image that is a key of processed_text.json and Comprehend Medical is
\* never called for a document that is a key of processed_entities.json
C37_NoRepeatedCollaboratorCall ==
    [][\A c \in log'.called :
           /\ c.service = "textract" => c.doc \notin KeysOf(processed_text)
           /\ c.service = "comprehendmedical" => c.doc \notin KeysOf(processed_entities)
      ]_vars

\* a later run has sent a new document to Comprehend Medical while both
\* files held the documents of an earlier run
C37_Witness ==
    /\ log.op = "extract_info"
    /\ log.called # {}
    /\ log.flag_dict.already_analyzed # {}
    /\ \E d \in log.flag_dict.already_analyzed :
           d \in KeysOf(processed_text) /\ d \in KeysOf(processed_entities)
    /\ \A c \in log.called : c.doc \in KeysOf(processed_entities)

\* C38: in every state doc_grader produces, proceed_to_generate is true
\* exactly when documents is non-empty, so the two conjuncts of the router
\* agree, and answer_generation never runs on an empty document list
C38_ProceedIffDocuments ==
    \A s \in Slots :
        /\ Graded(s) =>
              /\ {"proceed_to_generate", "documents"} \subseteq inv[s].state.keys
              /\ inv[s].state.proceed_to_generate <=> inv[s].state.documents # <<>>
        /\ inv[s].pc = "answer_generation" => inv[s].state.documents # <<>>

\* doc_grader has kept no document on a thread whose earlier turn had left
\* proceed_to_generate true
C38_Witness ==
    \E s \in Slots :
        /\ Graded(s)
        /\ inv[s].start.proceed_to_generate
        /\ inv[s].scores # <<>>
        /\ ~inv[s].state.proceed_to_generate
        /\ inv[s].state.documents = <<>>

\* the body ask_query answers with when the result has no generated_answer
Placeholder == <<"No answer generated.">>

\* the invocation of handler s ends in this step
Ends(s) == inv[s].pc # "END" /\ inv'[s].pc = "END"

\* C39: the answer POST /generate returns for a turn is the one written in
\* that turn: the LLM's answer of answer_generation or the apology of
\* fallback_agent. The generated_answer an earlier turn left in the
\* checkpoint was cleared before the answering node ran and is not
\* returned, and the placeholder is not returned after a completed run
C39_AnswerIsOfThisTurn ==
    [][\A s \in Slots :
           Ends(s) =>
               /\ inv[s].state.generated_answer = PyNone
               /\ inv'[s].response.status = 200
               /\ inv'[s].response.body # Placeholder
               /\ inv[s].pc = "answer_generation" =>
                      /\ Len(turns'[inv[s].unique_id]) = Len(turns[inv[s].unique_id]) + 1
                      /\ inv'[s].response.body = Last(turns'[inv[s].unique_id]).answer
               /\ inv[s].pc = "fallback_agent" =>
                      inv'[s].response.body = FallbackMessage
      ]_vars

\* a turn has been answered with "y" on a thread whose earlier turn was
\* answered with " x"
C39_Witness ==
    \E s \in Slots :
        /\ inv[s].pc = "END"
        /\ inv[s].response = [status |-> 200, body |-> <<"y">>]
        /\ inv[s].start.conversation.items # <<>>
        /\ inv[s].start.conversation.items[1].v.answer = <<"x">>

====
